---------------------------- MODULE Spec2Model ----------------------------
(***************************************************************************)
(* A model of the ip_diffim kernel solver: KernelSolution and its          *)
(* subclasses (src/src/KernelSolution.cc) and KernelCandidate              *)
(* (src/src/KernelCandidate.cc).                                           *)
(*                                                                         *)
(* Numbers.  A double is modelled as an extended rational <<n, d>> in      *)
(* lowest terms with d >= 0: d > 0 is the finite value n/d, <<1,0>> and    *)
(* <<-1,0>> are +inf and -inf, <<0,0>> is NaN.  The operations follow      *)
(* IEEE-754 for the special values (NaN propagates, 0*inf = NaN,           *)
(* inf-inf = NaN, 1/0 = inf) and are exact on finite values: rounding is   *)
(* not modelled.                                                           *)
(***************************************************************************)
EXTENDS Integers, Sequences, FiniteSets, TLC

VARIABLES
    SolutionId,   \* KernelSolution::_SolutionId, the process-wide id counter
    ks,           \* a KernelSolution built from (mMat, bVec) directly
    sol,          \* a Static/Masked/RegularizedKernelSolution
    cand,         \* a KernelCandidate
    visitor,      \* a BuildSingleKernelVisitor
    kernelCells,  \* the cells of a SpatialCellSet, each a list of candidates
    pc,           \* position of the running KernelCandidate::build call
    res,          \* what the last completed call did: its name, arguments, error, value
    log           \* history of the calls made so far

vars == <<log, pc, res, SolutionId, ks, sol, cand, visitor, kernelCells>>

----------------------------------------------------------------------------
(* Bounds of the model *)

\* finite matrix and vector entries of the linear-solver inputs are in -MaxEntry..MaxEntry
MaxEntry == 1

\* the images are ImgW x ImgH pixels
ImgW == 4
ImgH == 4

\* the error of a call that returned normally, and the value of an unused variable
None == "None"
NoObject == [id |-> 0]

\* the policy of a solution that is not regularized
NoPolicy == [lambdaType |-> None]

----------------------------------------------------------------------------
(* Extended rationals *)

Abs(n) == IF n < 0 THEN -n ELSE n

Sgn(n) == IF n < 0 THEN -1 ELSE IF n > 0 THEN 1 ELSE 0

RECURSIVE GCD(_, _)
GCD(a, b) == IF b = 0 THEN a ELSE GCD(b, a % b)

RNorm(n, d) ==
    IF d = 0 THEN <<Sgn(n), 0>>
    ELSE LET g == GCD(Abs(n), Abs(d))
             s == Sgn(d)
         IN  <<(s * n) \div g, (s * d) \div g>>

Q(n) == <<n, 1>>
Zero == <<0, 1>>
One == <<1, 1>>
NaN == <<0, 0>>
PInf == <<1, 0>>
NInf == <<-1, 0>>

isnan(a) == a = NaN
IsFinite(a) == a[2] # 0

\* the factors are in lowest terms: cancelling crosswise keeps the products small
RMul(a, b) ==
    IF a[2] = 0 \/ b[2] = 0 \/ a[1] = 0 \/ b[1] = 0 THEN RNorm(a[1] * b[1], a[2] * b[2])
    ELSE LET g == GCD(Abs(a[1]), b[2])
             h == GCD(Abs(b[1]), a[2])
         IN  <<(a[1] \div g) * (b[1] \div h), (a[2] \div h) * (b[2] \div g)>>

RAdd(a, b) ==
    IF isnan(a) \/ isnan(b) THEN NaN
    ELSE IF a[2] = 0 /\ b[2] = 0 THEN (IF a = b THEN a ELSE NaN)
    ELSE IF a[2] = 0 THEN a
    ELSE IF b[2] = 0 THEN b
    ELSE LET g == GCD(a[2], b[2])
         IN  RNorm(a[1] * (b[2] \div g) + b[1] * (a[2] \div g), (a[2] \div g) * b[2])

RNeg(a) == <<-a[1], a[2]>>
RSub(a, b) == RAdd(a, RNeg(b))
RInv(a) == RNorm(a[2], a[1])
RDiv(a, b) == RMul(a, RInv(b))
RAbs(a) == <<Abs(a[1]), a[2]>>

\* a < b as the hardware compares doubles: false when either is NaN
RLt(a, b) ==
    /\ ~isnan(a)
    /\ ~isnan(b)
    /\ IF a[2] = 0 \/ b[2] = 0 THEN a[1] * b[2] < b[1] * a[2] \/ (a[2] = b[2] /\ a[1] < b[1])
       ELSE LET g == GCD(a[2], b[2])
            IN  a[1] * (b[2] \div g) < b[1] * (a[2] \div g)

RGt(a, b) == RLt(b, a)
\* a == b as the hardware compares doubles
REq(a, b) == ~isnan(a) /\ a = b

----------------------------------------------------------------------------
(* Eigen vectors and matrices: a vector is a sequence of numbers, a matrix *)
(* a sequence of rows.                                                     *)

RECURSIVE RSum(_)
RSum(s) == IF s = <<>> THEN Zero ELSE RAdd(RSum(SubSeq(s, 1, Len(s) - 1)), s[Len(s)])

Rows(m) == Len(m)
Cols(m) == IF m = <<>> THEN 0 ELSE Len(m[1])

VecFinite(v) == \A i \in 1..Len(v) : IsFinite(v[i])
MatFinite(m) == \A i \in 1..Len(m) : VecFinite(m[i])

ZeroVec(n) == [i \in 1..n |-> Zero]
Identity(n) == [i \in 1..n |-> [j \in 1..n |-> IF i = j THEN One ELSE Zero]]

Dot(u, v) == RSum([i \in 1..Len(u) |-> RMul(u[i], v[i])])
MatVec(m, v) == [i \in 1..Len(m) |-> Dot(m[i], v)]
Transpose(m) == [j \in 1..Cols(m) |-> [i \in 1..Rows(m) |-> m[i][j]]]
MatMul(a, b) ==
    LET bt == Transpose(b)
    IN  [i \in 1..Rows(a) |-> [j \in 1..Len(bt) |-> Dot(a[i], bt[j])]]
MatAdd(a, b) == [i \in 1..Rows(a) |-> [j \in 1..Cols(a) |-> RAdd(a[i][j], b[i][j])]]
MatScale(c, m) == [i \in 1..Rows(m) |-> [j \in 1..Cols(m) |-> RMul(c, m[i][j])]]
Trace(m) == RSum([i \in 1..Rows(m) |-> m[i][i]])
IsSymmetric(m) == \A i \in 1..Rows(m) : \A j \in 1..Cols(m) : m[i][j] = m[j][i]

Det2(m) == RSub(RMul(m[1][1], m[2][2]), RMul(m[1][2], m[2][1]))


----------------------------------------------------------------------------
(* Eigen::FullPivLU<MatrixXd> for matrices of at most two rows, on finite  *)
(* entries.  The pivot is the entry of largest absolute value, the first   *)
(* one in column-major order on ties; rows and columns are swapped to      *)
(* bring it to the top-left corner.                                        *)

PivotOrder == <<<<1, 1>>, <<2, 1>>, <<1, 2>>, <<2, 2>>>>

PivotPos(m) ==
    LET isMax(k) ==
            \A l \in 1..4 :
                ~RLt(RAbs(m[PivotOrder[k][1]][PivotOrder[k][2]]),
                     RAbs(m[PivotOrder[l][1]][PivotOrder[l][2]]))
        first == CHOOSE k \in 1..4 : isMax(k) /\ \A l \in 1..(k - 1) : ~isMax(l)
    IN  PivotOrder[first]

FullPivLU(m) ==
    IF Rows(m) = 1
    THEN [n |-> 1, rp |-> <<1>>, cp |-> <<1>>, p |-> m[1][1],
          l21 |-> Zero, u12 |-> Zero, u22 |-> One]
    ELSE LET pos == PivotPos(m)
             rp == IF pos[1] = 1 THEN <<1, 2>> ELSE <<2, 1>>
             cp == IF pos[2] = 1 THEN <<1, 2>> ELSE <<2, 1>>
             p == m[rp[1]][cp[1]]
             l21 == IF p = Zero THEN Zero ELSE RDiv(m[rp[2]][cp[1]], p)
             u12 == m[rp[1]][cp[2]]
         IN  [n |-> 2, rp |-> rp, cp |-> cp, p |-> p, l21 |-> l21, u12 |-> u12,
              u22 |-> RSub(m[rp[2]][cp[2]], RMul(l21, u12))]

\* lu.isInvertible(): every pivot is nonzero
isInvertible(lu) == lu.p # Zero /\ lu.u22 # Zero

\* lu.solve(bVec): permute, forward-substitute, back-substitute, permute back
LUSolve(lu, b) ==
    IF lu.n = 1 THEN <<RDiv(b[1], lu.p)>>
    ELSE LET c1 == b[lu.rp[1]]
             c2 == RSub(b[lu.rp[2]], RMul(lu.l21, c1))
             x2 == RDiv(c2, lu.u22)
             x1 == RDiv(RSub(c1, RMul(lu.u12, x2)), lu.p)
         IN  [k \in 1..2 |-> IF lu.cp[1] = k THEN x1 ELSE x2]

----------------------------------------------------------------------------
(* Eigen::SelfAdjointEigenSolver<MatrixXd> on a finite symmetric matrix    *)
(* that FullPivLU found singular: its eigenvalues are rational (0 and the  *)
(* trace), so R*diag(e)*R^T is the sum of e_i * P_i over the spectral      *)
(* projectors P_i.  Eigenvalues come in increasing order.                  *)

EigenPairs(m) ==
    IF Rows(m) = 1 THEN <<[value |-> m[1][1], proj |-> Identity(1)]>>
    ELSE LET t == Trace(m)
         IN  IF t = Zero THEN <<[value |-> Zero, proj |-> Identity(2)]>>
             ELSE LET p1 == MatScale(RInv(t), m)
                      p0 == MatAdd(Identity(2), MatScale(Q(-1), p1))
                  IN  IF RLt(t, Zero)
                      THEN <<[value |-> t, proj |-> p1], [value |-> Zero, proj |-> p0]>>
                      ELSE <<[value |-> Zero, proj |-> p0], [value |-> t, proj |-> p1]>>

\* a mutated loop body: inverts every eigenvalue, the zero ones too
InvertEigenvalue_all(e) == RInv(e)

\* if (eValues(i) != 0.0) eValues(i) = 1.0/eValues(i);
InvertEigenvalue(e) == IF ~REq(e, Zero) THEN RInv(e) ELSE e

RECURSIVE SpectralSum(_, _)
SpectralSum(pairs, n) ==
    IF pairs = <<>> THEN [i \in 1..n |-> ZeroVec(n)]
    ELSE MatAdd(SpectralSum(Tail(pairs), n),
                MatScale(InvertEigenvalue(pairs[1].value), pairs[1].proj))

\* rMat * eValues.asDiagonal() * rMat.transpose()
PseudoInverse(m) == SpectralSum(EigenPairs(m), Rows(m))

----------------------------------------------------------------------------
(* class KernelSolution *)

\* the values of an entry of aVec when mMat holds a NaN or an infinity: the
\* pivot search and the eigen solver are unspecified on such input
GarbageValues == {NaN, Zero}

GarbageVectors(n) == [1..n -> GarbageValues]

\* KernelSolution::KernelSolution(mMat, bVec, fitForBackground), with id = ++_SolutionId
KernelSolution(id, mMat, bVec, fitForBackground) ==
    [id |-> id, mMat |-> mMat, bVec |-> bVec, aVec |-> <<>>, solvedBy |-> "NONE",
     fitForBackground |-> fitForBackground]

\* What the body of KernelSolution::solve(mMat, bVec) can compute: which branch
\* it leaves through (solvedBy), the local aVec, and whether the eigen branch threw.
solveOutcomes(mMat, bVec) ==
    IF MatFinite(mMat)
    THEN LET lu == FullPivLU(mMat)
         IN  IF isInvertible(lu)
             THEN {[solvedBy |-> "LU", aVec |-> LUSolve(lu, bVec), thrown |-> FALSE]}
             ELSE {[solvedBy |-> "EIGENVECTOR",
                    aVec |-> MatVec(PseudoInverse(mMat), bVec), thrown |-> FALSE],
                   [solvedBy |-> "EIGENVECTOR", aVec |-> <<>>, thrown |-> TRUE]}
    ELSE {[solvedBy |-> s, aVec |-> a, thrown |-> FALSE] :
              s \in {"LU", "EIGENVECTOR"}, a \in GarbageVectors(Len(bVec))}
         \cup {[solvedBy |-> "EIGENVECTOR", aVec |-> <<>>, thrown |-> TRUE]}

\* a mutated catch block: forgets to reset _solvedBy
solveCaught_keepsSolvedBy(self, o) == [self EXCEPT !.solvedBy = o.solvedBy]

\* the catch block of KernelSolution::solve: _solvedBy = NONE, then rethrow; _aVec is not assigned
solveCaught(self, o) == [self EXCEPT !.solvedBy = "NONE"]

\* KernelSolution::solve(mMat, bVec) leaving through outcome o: the solution afterwards
KernelSolution_solve(self, o) ==
    IF o.thrown THEN solveCaught(self, o)
    ELSE [self EXCEPT !.solvedBy = o.solvedBy, !.aVec = o.aVec]


----------------------------------------------------------------------------
(* Images.  An image is a function from the pixels <<x, y>> of the         *)
(* ImgW x ImgH bounding box (origin 0,0, so LOCAL and PARENT coordinates   *)
(* agree) to numbers.  A box is [minX, minY, maxX, maxY], inclusive.       *)

Pixels == (0..(ImgW - 1)) \X (0..(ImgH - 1))

ImageBBox == [minX |-> 0, minY |-> 0, maxX |-> ImgW - 1, maxY |-> ImgH - 1]

BoxWidth(b) == b.maxX - b.minX + 1
BoxHeight(b) == b.maxY - b.minY + 1
BoxContains(b, p) == b.minX <= p[1] /\ p[1] <= b.maxX /\ b.minY <= p[2] /\ p[2] <= b.maxY

FlatImage(v) == [p \in Pixels |-> v]
SpotImage(u, q, v) == [p \in Pixels |-> IF p = q THEN v ELSE u]

\* a basis kernel: a width x height image with its centre
DeltaFunctionKernel(w, h, px, py) ==
    [width |-> w, height |-> h, ctrX |-> w \div 2, ctrY |-> h \div 2,
     img |-> [q \in (0..(w - 1)) \X (0..(h - 1)) |-> IF q = <<px, py>> THEN One ELSE Zero]]

\* afw Kernel::shrinkBBox: the pixels whose convolution reads no pixel outside the box
shrinkBBox(k, b) ==
    [minX |-> b.minX + k.ctrX, minY |-> b.minY + k.ctrY,
     maxX |-> b.maxX - (k.width - 1 - k.ctrX), maxY |-> b.maxY - (k.height - 1 - k.ctrY)]

\* afwMath::convolve(cimage, templateImage, kernel, false): the kernel laid with its
\* centre on each pixel of the shrunk box; the edge pixels are set to NaN
convolve(img, k) ==
    LET good == shrinkBBox(k, ImageBBox)
        at(p) == RSum([n \in 1..(k.width * k.height) |->
                          LET i == (n - 1) % k.width
                              j == (n - 1) \div k.width
                          IN  RMul(k.img[<<i, j>>],
                                   img[<<p[1] - k.ctrX + i, p[2] - k.ctrY + j>>])])
    IN  [p \in Pixels |-> IF BoxContains(good, p) THEN at(p) ELSE NaN]

\* imageToEigenMatrix(img).block(...) resized to one column: Eigen stores a matrix
\* column by column, so the pixels of the box come x first, then y within x
BoxPixelOrder(b) ==
    [n \in 1..(BoxWidth(b) * BoxHeight(b)) |->
        <<b.minX + ((n - 1) \div BoxHeight(b)), b.minY + ((n - 1) % BoxHeight(b))>>]

Flatten(img, order) == [n \in 1..Len(order) |-> img[order[n]]]

\* afwMath::makeStatistics(image, MIN).getValue(): NaN pixels are skipped
RECURSIVE MinOver(_, _)
MinOver(img, ps) ==
    IF ps = {} THEN PInf
    ELSE LET p == CHOOSE q \in ps : TRUE
             rest == MinOver(img, ps \ {p})
         IN  IF isnan(img[p]) THEN rest ELSE IF RLt(img[p], rest) THEN img[p] ELSE rest

ImageMin(img) == MinOver(img, Pixels)

----------------------------------------------------------------------------
(* class StaticKernelSolution (and the fields its subclasses add) *)

\* StaticKernelSolution::StaticKernelSolution(basisList, fitForBackground), with
\* id = ++_SolutionId; kind tells the subclass; hMat and policy are the
\* RegularizedKernelSolution members
NewSolution(kind, id, basisList, fitForBackground, hMat, policy) ==
    [kind |-> kind, id |-> id, basisList |-> basisList,
     fitForBackground |-> fitForBackground,
     mMat |-> <<>>, bVec |-> <<>>, aVec |-> <<>>, solvedBy |-> "NONE",
     cMat |-> <<>>, iVec |-> <<>>, ivVec |-> <<>>,
     kernel |-> ZeroVec(Len(basisList)), background |-> Zero, kSum |-> Zero,
     hMat |-> hMat, policy |-> policy, lambda |-> None]

\* the LinearCombinationKernel of basisList with parameters kValues, as one kernel:
\* its image is the sum of the basis images weighted by the parameters
KernelImage(basisList, kValues) ==
    LET k == basisList[1]
    IN  [width |-> k.width, height |-> k.height, ctrX |-> k.ctrX, ctrY |-> k.ctrY,
         img |-> [q \in DOMAIN k.img |->
                     RSum([i \in 1..Len(basisList) |-> RMul(kValues[i], basisList[i].img[q])])]]

\* kernel->computeImage(image, false) returns the sum of the pixels of the kernel image
KernelSum(basisList, kValues) ==
    LET k == KernelImage(basisList, kValues)
    IN  RSum([n \in 1..(k.width * k.height) |->
                 k.img[<<(n - 1) % k.width, (n - 1) \div k.width>>]])

\* the accessors: each throws while _solvedBy == NONE and returns its member otherwise
Thrown(e) == [err |-> e, val |-> <<>>]
Returned(v) == [err |-> None, val |-> v]

\* if (_solvedBy == KernelSolution::NONE) throw
NotSolved(self) == self.solvedBy = "NONE"

getKernel(self) == IF NotSolved(self) THEN Thrown("Exception") ELSE Returned(self.kernel)

makeKernelImage(self) ==
    IF NotSolved(self) THEN Thrown("Exception")
    ELSE Returned(KernelImage(self.basisList, self.kernel).img)

getBackground(self) ==
    IF NotSolved(self) THEN Thrown("Exception") ELSE Returned(self.background)

getKsum(self) == IF NotSolved(self) THEN Thrown("Exception") ELSE Returned(self.kSum)

getSolutionPair(self) ==
    IF NotSolved(self) THEN Thrown("Exception")
    ELSE Returned(<<self.kernel, self.background>>)

\* a mutated variance test: only a negative minimum is refused
VarianceError_negativeOnly(varianceEstimate) == RLt(ImageMin(varianceEstimate), Zero)

\* the variance test every build starts with
VarianceError(varianceEstimate) ==
    LET min == ImageMin(varianceEstimate)
    IN  RLt(min, Zero) \/ REq(min, Zero)

\* a mutated weight: the variance itself
InverseVariance_raw(v) == v

\* eigeniVariance = imageToEigenMatrix(varianceEstimate).array().inverse()
InverseVariance(v) == RInv(v)

\* the tail shared by every build: _cMat, _ivVec, _iVec, then _mMat and _bVec from them
StoreNormalEquations(self, convolved, science, variance, order) ==
    LET nK == Len(self.basisList)
        nP == nK + (IF self.fitForBackground THEN 1 ELSE 0)
        cMat == [r \in 1..Len(order) |->
                    [c \in 1..nP |-> IF c <= nK THEN convolved[c][order[r]] ELSE One]]
        ivVec == [r \in 1..Len(order) |-> InverseVariance(variance[order[r]])]
        iVec == Flatten(science, order)
        vc == [r \in 1..Len(order) |-> [c \in 1..nP |-> RMul(ivVec[r], cMat[r][c])]]
        vi == [r \in 1..Len(order) |-> RMul(ivVec[r], iVec[r])]
        ct == [c \in 1..nP |-> [r \in 1..Len(order) |-> cMat[r][c]]]
    IN  [self EXCEPT !.cMat = cMat, !.ivVec = ivVec, !.iVec = iVec,
                     !.mMat = [i \in 1..nP |-> [j \in 1..nP |->
                                  RSum([r \in 1..Len(order) |-> RMul(ct[i][r], vc[r][j])])]],
                     !.bVec = [i \in 1..nP |-> Dot(ct[i], vi)]]

ConvolvedList(self, templateImage) ==
    [c \in 1..Len(self.basisList) |-> convolve(templateImage, self.basisList[c])]

\* StaticKernelSolution::build: the solution afterwards and the error thrown
build(self, templateImage, scienceImage, varianceEstimate) ==
    IF VarianceError(varianceEstimate) THEN [self |-> self, err |-> "Exception"]
    ELSE LET goodBBox == shrinkBBox(self.basisList[1], ImageBBox)
         IN  [self |-> StoreNormalEquations(self, ConvolvedList(self, templateImage),
                                            scienceImage, varianceEstimate,
                                            BoxPixelOrder(goodBBox)),
              err |-> None]

\* a mutated NaN test of the kernel loop: no coefficient is tested
KernelCoefficientIsNan_unchecked(aVec, nKernelParameters) == FALSE

\* the loop over idx < nKernelParameters: some _aVec(idx) is NaN
KernelCoefficientIsNan(aVec, nKernelParameters) ==
    \E idx \in 1..nKernelParameters : isnan(aVec[idx])

\* StaticKernelSolution::_setKernel: the solution afterwards and the error thrown
setKernel(self) ==
    LET nParameters == Len(self.aVec)
        nBackgroundParameters == IF self.fitForBackground THEN 1 ELSE 0
        nKernelParameters == Len(self.basisList)
        kValues == SubSeq(self.aVec, 1, nKernelParameters)
        withKernel == [self EXCEPT !.kernel = kValues,
                                   !.kSum = KernelSum(self.basisList, kValues)]
    IN  IF self.solvedBy = "NONE" THEN [self |-> self, err |-> "Exception"]
        ELSE IF nParameters # nKernelParameters + nBackgroundParameters
        THEN [self |-> self, err |-> "Exception"]
        ELSE IF KernelCoefficientIsNan(self.aVec, nKernelParameters)
        THEN [self |-> self, err |-> "Exception"]
        ELSE IF ~self.fitForBackground THEN [self |-> withKernel, err |-> None]
        ELSE IF isnan(self.aVec[nParameters]) THEN [self |-> withKernel, err |-> "Exception"]
        ELSE [self |-> [withKernel EXCEPT !.background = self.aVec[nParameters]],
              err |-> None]

\* StaticKernelSolution::solve leaving KernelSolution::solve through outcome o
StaticKernelSolution_solve(self, o) ==
    LET solved == KernelSolution_solve(self, o)
    IN  IF o.thrown THEN [self |-> solved, err |-> "Exception"] ELSE setKernel(solved)

----------------------------------------------------------------------------
(* class MaskedKernelSolution *)

\* FootprintSet(maskFpSet, growPix, true): every pixel within growPix of a masked one
GrownMask(mask, growPix) ==
    [p \in Pixels |->
        \E q \in Pixels :
            /\ mask[q]
            /\ (p[1] - q[1]) * (p[1] - q[1]) + (p[2] - q[2]) * (p[2] - q[2])
                   <= growPix * growPix]

\* the pixels of the full footprint in span order (row by row)
SpanOrder == [n \in 1..(ImgW * ImgH) |-> <<(n - 1) % ImgW, (n - 1) \div ImgW>>]

\* MaskedKernelSolution::buildWithMask; mask[p] tells whether pixel p has one of
\* the bits BAD, SAT, NO_DATA, EDGE
buildWithMask(self, templateImage, scienceImage, varianceEstimate, pixelMask) ==
    IF VarianceError(varianceEstimate) THEN [self |-> self, err |-> "Exception"]
    ELSE LET finalMask == GrownMask(pixelMask, self.basisList[1].ctrX)
             good == SelectSeq(SpanOrder, LAMBDA p : ~finalMask[p])
         IN  [self |-> StoreNormalEquations(self, ConvolvedList(self, templateImage),
                                            scienceImage, varianceEstimate, good),
              err |-> None]

\* geom::Box2I(minimum, maximum): a dimension given with min > max is swapped
Box2I(x0, y0, x1, y1) ==
    [minX |-> IF x0 <= x1 THEN x0 ELSE x1, minY |-> IF y0 <= y1 THEN y0 ELSE y1,
     maxX |-> IF x0 <= x1 THEN x1 ELSE x0, maxY |-> IF y0 <= y1 THEN y1 ELSE y0]

BoxInImage(b) == 0 <= b.minX /\ b.maxX <= ImgW - 1 /\ 0 <= b.minY /\ b.maxY <= ImgH - 1

\* the four boxes around maskBox: top, bottom, left, right
boxArray(self, maskBox) ==
    LET shrunkBBox == shrinkBBox(self.basisList[1], ImageBBox)
        startCol == shrunkBBox.minX
        startRow == shrunkBBox.minY
        endCol == shrunkBBox.maxX
        endRow == shrunkBBox.maxY
    IN  <<Box2I(startCol, maskBox.maxY + 1, endCol, endRow),
          Box2I(startCol, startRow, endCol, maskBox.minY - 1),
          Box2I(startCol, maskBox.minY, maskBox.minX - 1, maskBox.maxY),
          Box2I(maskBox.maxX + 1, maskBox.minY, endCol, maskBox.maxY)>>

\* MaskedKernelSolution::buildSingleMaskOrig; a sub-image of a box that leaves the
\* image throws before any member is assigned
buildSingleMaskOrig(self, templateImage, scienceImage, varianceEstimate, maskBox) ==
    IF VarianceError(varianceEstimate) THEN [self |-> self, err |-> "Exception"]
    ELSE LET boxes == boxArray(self, maskBox)
         IN  IF \E i \in 1..4 : ~BoxInImage(boxes[i])
             THEN [self |-> self, err |-> "LengthError"]
             ELSE [self |-> StoreNormalEquations(
                                self, ConvolvedList(self, templateImage), scienceImage,
                                varianceEstimate,
                                BoxPixelOrder(boxes[1]) \o BoxPixelOrder(boxes[2])
                                    \o BoxPixelOrder(boxes[3]) \o BoxPixelOrder(boxes[4])),
                   err |-> None]

----------------------------------------------------------------------------
(* class RegularizedKernelSolution *)

\* RegularizedKernelSolution::solve up to the choice of lambda: _mMat and _bVec are
\* formed again from _cMat, _ivVec and _iVec, then _lambda is set from the policy
chooseLambda(self) ==
    LET nP == Cols(self.cMat)
        nR == Rows(self.cMat)
        ct == Transpose(self.cMat)
        remade == [self EXCEPT
                      !.mMat = [i \in 1..nP |-> [j \in 1..nP |->
                                   RSum([r \in 1..nR |->
                                            RMul(RMul(ct[i][r], self.ivVec[r]),
                                                 self.cMat[r][j])])]],
                      !.bVec = [i \in 1..nP |->
                                   RSum([r \in 1..nR |->
                                            RMul(RMul(ct[i][r], self.ivVec[r]),
                                                 self.iVec[r])])]]
    IN  IF self.policy.lambdaType = "absolute"
        THEN [self |-> [remade EXCEPT !.lambda = self.policy.lambdaValue], err |-> None]
        ELSE IF self.policy.lambdaType = "relative"
        THEN [self |-> [remade EXCEPT !.lambda =
                           RMul(RDiv(Trace(remade.mMat), Trace(self.hMat)),
                                self.policy.lambdaScaling)],
              err |-> None]
        ELSE [self |-> remade, err |-> "Exception"]

\* a mutated getM: the regularization term is left out
getM_withoutHmat(self, includeHmat) == self.mMat

\* RegularizedKernelSolution::getM(includeHmat)
getM(self, includeHmat) ==
    IF includeHmat THEN MatAdd(self.mMat, MatScale(self.lambda, self.hMat)) ELSE self.mMat

\* RegularizedKernelSolution::solve after chooseLambda, leaving
\* KernelSolution::solve(_mMat + _lambda * _hMat, _bVec) through outcome o
RegularizedKernelSolution_solve(chosen, o) ==
    LET solved == KernelSolution_solve(chosen, o)
    IN  IF o.thrown THEN [self |-> solved, err |-> "Exception"] ELSE setKernel(solved)

----------------------------------------------------------------------------
(* KernelSolution::getConditionNumber, as far as its callers use it: the   *)
(* comparison with maxConditionNumber >= 1, on a finite symmetric matrix   *)
(* of at most two rows.  The eigenvalues are (t -+ sqrt(t^2 - 4d))/2 for   *)
(* trace t and determinant d; the comparison is made on their squares.     *)

Sq(a) == RMul(a, a)

\* EIGENVALUE: eValues.maxCoeff() / eValues.minCoeff() > maxConditionNumber
EigenvalueRatioExceeds(mMat, maxConditionNumber) ==
    IF Rows(mMat) = 1 THEN mMat[1][1] # Zero /\ RGt(One, maxConditionNumber)
    ELSE LET t == Trace(mMat)
             d == Det2(mMat)
             disc == RSub(Sq(t), RMul(Q(4), d))
         IN  \* eMin = 0 < eMax: the ratio is +inf
             \/ d = Zero /\ RGt(t, Zero)
             \* 0 < eMin <= eMax
             \/ /\ RGt(d, Zero) /\ RGt(t, Zero)
                /\ RGt(RMul(disc, Sq(RAdd(maxConditionNumber, One))),
                       RMul(Sq(t), Sq(RSub(maxConditionNumber, One))))

\* SVD: sValues.maxCoeff() / sValues.minCoeff() > maxConditionNumber; the singular
\* values of a symmetric matrix are the absolute values of its eigenvalues,
\* (|t| -+ sqrt(t^2 - 4d))/2 when d > 0 and (sqrt(t^2 - 4d) -+ |t|)/2 when d < 0
SingularValueRatioExceeds(mMat, maxConditionNumber) ==
    IF Rows(mMat) = 1 THEN mMat[1][1] # Zero /\ RGt(One, maxConditionNumber)
    ELSE LET t == Trace(mMat)
             d == Det2(mMat)
             disc == RSub(Sq(t), RMul(Q(4), d))
         IN  \/ d = Zero /\ t # Zero
             \/ /\ RGt(d, Zero)
                /\ RGt(RMul(disc, Sq(RAdd(maxConditionNumber, One))),
                       RMul(Sq(t), Sq(RSub(maxConditionNumber, One))))
             \/ /\ RLt(d, Zero)
                /\ RGt(RMul(Sq(t), Sq(RAdd(maxConditionNumber, One))),
                       RMul(disc, Sq(RSub(maxConditionNumber, One))))

\* the outcomes of getConditionNumber(ctype) > maxConditionNumber; the
\* decompositions are unspecified on a matrix holding a NaN or an infinity
ConditionNumberExceeds(mMat, ctype, maxConditionNumber) ==
    IF ~MatFinite(mMat) THEN BOOLEAN
    ELSE IF ctype = "EIGENVALUE" THEN {EigenvalueRatioExceeds(mMat, maxConditionNumber)}
    ELSE {SingularValueRatioExceeds(mMat, maxConditionNumber)}

----------------------------------------------------------------------------
(* class KernelCandidate *)

\* a masked image: its image plane and its variance plane
MaskedImage(image, variance) == [image |-> image, variance |-> variance]

\* the null _varianceEstimate of a candidate that was never built: an image
\* without pixels
NoImage == [p \in {} |-> Zero]

\* KernelCandidate::KernelCandidate(source, templateMaskedImage, scienceMaskedImage, ps);
\* chi2 is not a number until setChi2 is called
KernelCandidate(templateMaskedImage, scienceMaskedImage, ps) ==
    [templateMaskedImage |-> templateMaskedImage,
     scienceMaskedImage |-> scienceMaskedImage,
     varianceEstimate |-> NoImage,
     ps |-> ps,
     isInitialized |-> FALSE,
     useRegularization |-> FALSE,
     fitForBackground |-> ps.fitForBackground,
     kernelSolutionOrig |-> NoObject,
     kernelSolutionPca |-> NoObject,
     status |-> "UNKNOWN",
     chi2 |-> NaN]

\* the k-th smallest pixel value
RankedValue(img, k) ==
    LET v == CHOOSE x \in {img[p] : p \in Pixels} :
                 /\ Cardinality({p \in Pixels : RLt(img[p], x)}) < k
                 /\ Cardinality({p \in Pixels : ~RLt(x, img[p])}) >= k
    IN  v

\* afwMath::makeStatistics(var, MEDIAN).getValue() of an image without NaN pixels
Median(img) ==
    LET n == ImgW * ImgH
    IN  IF n % 2 = 1 THEN RankedValue(img, (n + 1) \div 2)
        ELSE RDiv(RAdd(RankedValue(img, n \div 2), RankedValue(img, (n \div 2) + 1)), Q(2))

\* the first statements of build(): the variance estimate of the first pass
InitialVariance(self) ==
    LET var == [p \in Pixels |-> RAdd(self.scienceMaskedImage.variance[p],
                                      self.templateMaskedImage.variance[p])]
        median == Median(var)
    IN  IF self.ps.constantVarianceWeighting
        THEN FlatImage(IF ~RGt(median, Zero) THEN One ELSE median)
        ELSE var

\* convolveAndSubtract(templateMaskedImage, scienceMaskedImage, kernel, background):
\* science - template (x) kernel - background; the variance of the difference is the
\* science variance plus the template variance under the squared kernel, infinite
\* on the edge where the convolution is undefined
convolveAndSubtract(templateMaskedImage, scienceMaskedImage, kernel, background) ==
    LET convolved == convolve(templateMaskedImage.image, kernel)
        squared == [kernel EXCEPT !.img = [q \in DOMAIN kernel.img |-> Sq(kernel.img[q])]]
        cvar == convolve(templateMaskedImage.variance, squared)
        good == shrinkBBox(kernel, ImageBBox)
    IN  MaskedImage(
            [p \in Pixels |-> RSub(RSub(scienceMaskedImage.image[p], convolved[p]), background)],
            [p \in Pixels |-> RAdd(scienceMaskedImage.variance[p],
                                   IF BoxContains(good, p) THEN cvar[p] ELSE PInf)])

\* a mutated RECENT: prefers the original slot
RecentSolution_preferOrig(self) ==
    IF self.kernelSolutionOrig # NoObject THEN self.kernelSolutionOrig
    ELSE self.kernelSolutionPca

\* what RECENT reads: the pca slot when it holds a solution, else the original slot
RecentSolution(self) ==
    IF self.kernelSolutionPca # NoObject THEN self.kernelSolutionPca
    ELSE self.kernelSolutionOrig

CandidateSwitches == {"ORIG", "PCA", "RECENT", "invalid"}

\* the slot a switch value selects, or the error of the accessor
SelectSolution(self, switch) ==
    IF switch = "ORIG"
    THEN IF self.kernelSolutionOrig # NoObject THEN Returned(self.kernelSolutionOrig)
         ELSE Thrown("RuntimeError")
    ELSE IF switch = "PCA"
    THEN IF self.kernelSolutionPca # NoObject THEN Returned(self.kernelSolutionPca)
         ELSE Thrown("RuntimeError")
    ELSE IF switch = "RECENT"
    THEN IF RecentSolution(self) # NoObject THEN Returned(RecentSolution(self))
         ELSE Thrown("RuntimeError")
    ELSE Thrown("logic_error")

\* KernelCandidate::getDifferenceImage(kernel, background) on a slot
DifferenceImageOf(self, solution) ==
    IF NotSolved(solution) THEN Thrown("Exception")
    ELSE Returned(convolveAndSubtract(self.templateMaskedImage, self.scienceMaskedImage,
                                      KernelImage(solution.basisList, solution.kernel),
                                      solution.background))

CandidateAccessors ==
    {"getKernel", "getBackground", "getKsum", "getKernelImage", "getKernelSolution",
     "getDifferenceImage"}

\* KernelCandidate::getKernel, getBackground, getKsum, getKernelImage,
\* getKernelSolution and getDifferenceImage with a switch value
CandidateGet(self, name, switch) ==
    LET slot == SelectSolution(self, switch)
    IN  IF slot.err # None THEN slot
        ELSE CASE name = "getKernel" -> getKernel(slot.val)
               [] name = "getBackground" -> getBackground(slot.val)
               [] name = "getKsum" -> getKsum(slot.val)
               [] name = "getKernelImage" -> makeKernelImage(slot.val)
               [] name = "getKernelSolution" -> slot
               [] name = "getDifferenceImage" -> DifferenceImageOf(self, slot.val)

\* a mutated slot choice: always the original slot
UsesPcaSlot_never(self) == FALSE

UsesPcaSlot_always(self) == TRUE

\* if (_isInitialized) ... _kernelSolutionPca ... else ... _kernelSolutionOrig ...
UsesPcaSlot(self) == self.isInitialized

\* the slot _buildKernelSolution works on
TargetSlot(self) == IF UsesPcaSlot(self) THEN "pca" ELSE "original"

TargetSolution(self) ==
    IF UsesPcaSlot(self) THEN self.kernelSolutionPca ELSE self.kernelSolutionOrig

\* _kernelSolutionPca = ...; or _kernelSolutionOrig = ...;
WithTargetSolution(self, solution) ==
    IF UsesPcaSlot(self) THEN [self EXCEPT !.kernelSolutionPca = solution]
    ELSE [self EXCEPT !.kernelSolutionOrig = solution]

\* KernelCandidate::_buildKernelSolution(basisList, hMat) up to the gate: the type
\* test, the new solution put in the slot that _isInitialized selects, its build
beginBuildKernelSolution(self, id, basisList, hMat) ==
    LET regularized == hMat # <<>>
        created == IF regularized
                   THEN NewSolution("Regularized", id, basisList, self.fitForBackground,
                                    hMat, self.ps)
                   ELSE NewSolution("Static", id, basisList, self.fitForBackground,
                                    <<>>, NoPolicy)
        built == build(created, self.templateMaskedImage.image,
                       self.scienceMaskedImage.image, self.varianceEstimate)
        flagged == [self EXCEPT !.useRegularization = regularized]
    IN  IF self.ps.conditionNumberType \notin {"SVD", "EIGENVALUE"}
        THEN [self |-> self, err |-> "TypeError", created |-> FALSE]
        ELSE [self |-> WithTargetSolution(flagged, built.self),
              err |-> built.err, created |-> TRUE]

\* if (checkConditionNumber) if (getConditionNumber(ctype) > maxConditionNumber)
\* { setStatus(BAD); return; } with the outcome exceeds of the comparison
gateTripped(self, exceeds) == self.ps.checkConditionNumber /\ exceeds

\* a mutated test: the constant variance weighting is not looked at
SecondPass_ignoresConstant(self) == self.ps.iterateSingleKernel

\* if (iterateSingleKernel && !constantVarianceWeighting): build() reweights and
\* calls _buildKernelSolution a second time
SecondPass(self) ==
    self.ps.iterateSingleKernel /\ ~self.ps.constantVarianceWeighting

----------------------------------------------------------------------------
(* The linear solver on its own: a KernelSolution constructed from a       *)
(* symmetric mMat and a bVec, then solved.                                 *)

LinEntries == {Q(n) : n \in (-MaxEntry)..MaxEntry}

\* the entries of mMat: finite ones and NaN
LinMatValues == LinEntries \cup {NaN}

\* the entries of bVec: finite ones, NaN and +inf
LinVecValues == LinEntries \cup {NaN, PInf}

LinMatrices ==
    {<<<<a>>>> : a \in LinMatValues}
    \cup {<<<<a, b>>, <<b, c>>>> : a \in LinMatValues, b \in LinMatValues, c \in LinMatValues}

LinVectors(n) == [1..n -> LinVecValues]

InitLin ==
    /\ visitor = NoObject
    /\ kernelCells = NoObject
    /\ \E m \in LinMatrices : \E b \in LinVectors(Rows(m)) : \E fit \in BOOLEAN :
           ks = KernelSolution(1, m, b, fit)
    /\ SolutionId = 1
    /\ sol = NoObject
    /\ cand = NoObject
    /\ pc = "idle"
    /\ res = [op |-> "construct", arg |-> <<>>, err |-> None, val |-> <<>>]
    /\ log = <<>>

\* ks.solve(): solve(_mMat, _bVec)
LinSolve ==
    /\ \E o \in solveOutcomes(ks.mMat, ks.bVec) :
           /\ ks' = KernelSolution_solve(ks, o)
           /\ res' = [op |-> "solve", arg |-> <<>>,
                      err |-> IF o.thrown THEN "Exception" ELSE None, val |-> <<>>]
    /\ UNCHANGED <<SolutionId, sol, cand, visitor, kernelCells, pc, log>>

NextLin == LinSolve

SpecLin == InitLin /\ [][NextLin]_vars

----------------------------------------------------------------------------
(* One stamp solution on its own: a Static, Masked or Regularized solution *)
(* is constructed, then built, solved and read in any order.               *)

\* at most MaxCalls build and solve calls are made on the solution
MaxCalls == 2

CentreDelta == DeltaFunctionKernel(3, 3, 1, 1)
LeftDelta == DeltaFunctionKernel(3, 3, 0, 1)

\* the basis lists: one kernel, two independent kernels, the same kernel twice
BasisLists == {<<CentreDelta>>, <<CentreDelta, LeftDelta>>, <<CentreDelta, CentreDelta>>}

\* the linear solver is modelled up to two parameters
SolConfigs ==
    {c \in [basisList : BasisLists, fitForBackground : BOOLEAN] :
        Len(c.basisList) + (IF c.fitForBackground THEN 1 ELSE 0) <= 2}

\* the policies of a regularized solution; the risk-minimising lambda types are
\* not among them
Policies ==
    {[lambdaType |-> "absolute", lambdaValue |-> One],
     [lambdaType |-> "relative", lambdaScaling |-> One],
     [lambdaType |-> "unrecognized"]}

NewSolutions ==
    {NewSolution(kind, 1, c.basisList, c.fitForBackground, <<>>, NoPolicy) :
        kind \in {"Static", "Masked"}, c \in SolConfigs}
    \cup {NewSolution("Regularized", 1, c.basisList, c.fitForBackground,
                       Identity(Len(c.basisList) + (IF c.fitForBackground THEN 1 ELSE 0)),
                       policy) :
              c \in {d \in SolConfigs : d.basisList # <<CentreDelta, CentreDelta>>},
              policy \in Policies}

\* a pixel of the good region, and a pixel of the edge
Hot == <<1, 1>>
Edge == <<0, 0>>

TemplateImages == {SpotImage(One, Hot, v) : v \in {One, Q(2), NaN}}
ScienceImages == {SpotImage(One, Hot, v) : v \in {One, Q(3), NaN}}
VarianceImages ==
    {FlatImage(One), SpotImage(One, Hot, Q(2)), SpotImage(One, Hot, Zero),
     SpotImage(One, Edge, Q(-1)), SpotImage(One, Edge, NaN)}

\* every template and science image under the flat variance, and one pair of them
\* under every variance
Stamps ==
    {st \in [template : TemplateImages, science : ScienceImages, variance : VarianceImages] :
        \/ st.variance = FlatImage(One)
        \/ st.template = SpotImage(One, Hot, Q(2)) /\ st.science = SpotImage(One, Hot, Q(3))}

\* the stamps of the masked builds: one template and science image under every variance
MaskedStamps ==
    {st \in Stamps : st.template = SpotImage(One, Hot, Q(2)) /\ st.science = SpotImage(One, Hot, Q(3))}

\* pixel masks: nothing masked, one corner pixel masked
PixelMasks == {[p \in Pixels |-> FALSE], [p \in Pixels |-> p = Edge]}

\* mask boxes: one pixel of the good region, one pixel of the far corner
MaskBoxes ==
    {[minX |-> p[1], minY |-> p[2], maxX |-> p[1], maxY |-> p[2]] :
        p \in {Hot, <<ImgW - 1, ImgH - 1>>}}

InitSol ==
    /\ visitor = NoObject
    /\ kernelCells = NoObject
    /\ sol \in NewSolutions
    /\ SolutionId = 1
    /\ ks = NoObject
    /\ cand = NoObject
    /\ pc = "idle"
    /\ res = [op |-> "construct", arg |-> <<>>, err |-> None, val |-> <<>>]
    /\ log = [calls |-> 0, solved |-> FALSE]

SolCalled(op, arg, r) ==
    /\ sol' = r.self
    /\ res' = [op |-> op, arg |-> arg, err |-> r.err, val |-> <<>>]
    /\ log' = [calls |-> log.calls + 1,
               solved |-> log.solved \/ (op = "solve" /\ r.err = None)]
    /\ UNCHANGED <<SolutionId, ks, cand, visitor, kernelCells, pc>>

\* sol.build(template, science, variance) on one of the stamps, as one of the
\* first maxCalls calls
SolBuildAmong(stamps, maxCalls) ==
    /\ log.calls < maxCalls
    /\ \E st \in stamps :
           SolCalled("build", st, build(sol, st.template, st.science, st.variance))

\* sol.build(template, science, variance)
SolBuild == SolBuildAmong(Stamps, MaxCalls)

\* sol.buildWithMask(template, science, variance, pixelMask)
SolBuildWithMask ==
    /\ log.calls < MaxCalls
    /\ sol.kind = "Masked"
    /\ \E st \in MaskedStamps : \E mask \in PixelMasks :
           SolCalled("buildWithMask", st,
                     buildWithMask(sol, st.template, st.science, st.variance, mask))

\* sol.buildSingleMaskOrig(template, science, variance, maskBox)
SolBuildSingleMaskOrig ==
    /\ log.calls < MaxCalls
    /\ sol.kind = "Masked"
    /\ \E st \in MaskedStamps : \E maskBox \in MaskBoxes :
           SolCalled("buildSingleMaskOrig",
                     [template |-> st.template, science |-> st.science,
                      variance |-> st.variance, maskBox |-> maskBox],
                     buildSingleMaskOrig(sol, st.template, st.science, st.variance, maskBox))

\* sol.solve() of a Static or Masked solution that was built, as one of the
\* first maxCalls calls
SolSolveWithin(maxCalls) ==
    /\ log.calls < maxCalls
    /\ sol.kind \in {"Static", "Masked"}
    /\ sol.cMat # <<>>
    /\ \E o \in solveOutcomes(sol.mMat, sol.bVec) :
           SolCalled("solve", <<>>, StaticKernelSolution_solve(sol, o))

\* sol.solve() of a Static or Masked solution that was built
SolSolve == SolSolveWithin(MaxCalls)

\* sol.solve() of a Regularized solution that was built: on one never built
\* _mMat + _lambda * _hMat adds matrices of different sizes
SolSolveRegularized ==
    /\ log.calls < MaxCalls
    /\ sol.kind = "Regularized"
    /\ sol.cMat # <<>>
    /\ LET chosen == chooseLambda(sol)
       IN  IF chosen.err # None THEN SolCalled("solve", <<>>, chosen)
           ELSE \E o \in solveOutcomes(getM(chosen.self, TRUE), chosen.self.bVec) :
                    SolCalled("solve", <<>>, RegularizedKernelSolution_solve(chosen.self, o))

Accessors == {"getKernel", "makeKernelImage", "getBackground", "getKsum", "getSolutionPair"}

CallAccessor(name, self) ==
    CASE name = "getKernel" -> getKernel(self)
      [] name = "makeKernelImage" -> makeKernelImage(self)
      [] name = "getBackground" -> getBackground(self)
      [] name = "getKsum" -> getKsum(self)
      [] name = "getSolutionPair" -> getSolutionPair(self)

\* one of the accessors is called
SolGet ==
    /\ \E name \in Accessors :
           LET r == CallAccessor(name, sol)
           IN  res' = [op |-> name, arg |-> <<>>, err |-> r.err, val |-> r.val]
    /\ UNCHANGED <<SolutionId, ks, sol, cand, visitor, kernelCells, pc, log>>

\* sol.getM(includeHmat) of a regularized solution that was built; _lambda is not
\* initialized by the constructor, so before the first solve() it holds any value
SolGetM ==
    /\ sol.kind = "Regularized"
    /\ sol.mMat # <<>>
    /\ \E includeHmat \in BOOLEAN :
       \E lambda \in IF sol.lambda = None THEN GarbageValues ELSE {sol.lambda} :
           res' = [op |-> "getM", arg |-> includeHmat, err |-> None,
                   val |-> getM([sol EXCEPT !.lambda = lambda], includeHmat)]
    /\ UNCHANGED <<SolutionId, ks, sol, cand, visitor, kernelCells, pc, log>>

NextSol ==
    \/ SolBuild
    \/ SolBuildWithMask
    \/ SolBuildSingleMaskOrig
    \/ SolSolve
    \/ SolSolveRegularized
    \/ SolGet
    \/ SolGetM

SpecSol == InitSol /\ [][NextSol]_vars

----------------------------------------------------------------------------
(* One static solution with one basis kernel, built and solved again and    *)
(* again on a few stamps.                                                   *)

\* at most MaxRebuildCalls build() and solve() calls are made
MaxRebuildCalls == 4

\* a template with a finite or a NaN hot pixel under two science images
RebuildStamps ==
    {st \in Stamps : /\ st.variance = FlatImage(One)
                     /\ st.template # FlatImage(One)
                     /\ st.science \in {FlatImage(One), SpotImage(One, Hot, Q(3))}}

InitRebuild ==
    /\ visitor = NoObject
    /\ kernelCells = NoObject
    /\ sol \in {NewSolution("Static", 1, <<CentreDelta>>, fit, <<>>, NoPolicy) :
                   fit \in BOOLEAN}
    /\ SolutionId = 1
    /\ ks = NoObject
    /\ cand = NoObject
    /\ pc = "idle"
    /\ res = [op |-> "construct", arg |-> <<>>, err |-> None, val |-> <<>>]
    /\ log = [calls |-> 0, solved |-> FALSE]

SolRebuild == SolBuildAmong(RebuildStamps, MaxRebuildCalls)

SolResolve == SolSolveWithin(MaxRebuildCalls)

NextRebuild ==
    \/ SolRebuild
    \/ SolResolve
    \/ SolGet

SpecRebuild == InitRebuild /\ [][NextRebuild]_vars

----------------------------------------------------------------------------
(* One candidate: constructed, then built (in the steps of build()) and    *)
(* read through its accessors between the builds.                          *)

\* at most MaxBuilds build() calls are made on the candidate
MaxBuilds == 2

\* at most MaxGets accessor calls follow a build() call or the construction
MaxGets == 1

\* the property sets: every combination of the three switches under EIGENVALUE,
\* one under SVD, one under a type that is not recognized; the regularization
\* strength is 1 where build() makes one pass and 0 where it makes two
PropertySets ==
    {[constantVarianceWeighting |-> c.const, iterateSingleKernel |-> c.iter,
      checkConditionNumber |-> c.chk, conditionNumberType |-> c.type,
      maxConditionNumber |-> Q(50), fitForBackground |-> fit,
      lambdaType |-> "absolute",
      lambdaValue |-> IF c.iter /\ ~c.const THEN Zero ELSE One] :
        c \in {d \in [const : BOOLEAN, iter : BOOLEAN, chk : BOOLEAN,
                      type : {"EIGENVALUE", "SVD", "unrecognized"}] :
                  \/ d.type = "EIGENVALUE"
                  \/ d.type = "SVD" /\ ~d.const /\ d.iter /\ d.chk
                  \/ d.type = "unrecognized" /\ ~d.const /\ ~d.iter /\ d.chk},
        fit \in BOOLEAN}

\* the science image and variance at the hot pixel: a stamp whose condition
\* number passes the gate in both passes, one that fails it in the second pass
\* only, one that fails it in the first pass, a NaN pixel, a variance sum of zero
ScienceSpots ==
    {<<Q(3), Q(3)>>, <<One, Q(3)>>, <<Q(3), Q(5)>>, <<NaN, Q(3)>>, <<Q(3), Q(-1)>>}

NewCandidates ==
    {KernelCandidate(MaskedImage(SpotImage(One, Hot, Q(2)), FlatImage(One)),
                     MaskedImage(SpotImage(One, Hot, sp[1]), SpotImage(One, Hot, sp[2])),
                     ps) :
        sp \in ScienceSpots, ps \in PropertySets}

\* the arguments of build(): a basis list that keeps the parameters at two or
\* fewer, and no regularization matrix or the identity
BuildArguments(self) ==
    UNION {[basisList : {basisList},
            hMat : {<<>>, Identity(Len(basisList) + (IF self.fitForBackground THEN 1 ELSE 0))}] :
              basisList \in IF self.fitForBackground THEN {<<CentreDelta>>}
                            ELSE {<<CentreDelta>>, <<CentreDelta, CentreDelta>>}}

InitCand ==
    /\ visitor = NoObject
    /\ kernelCells = NoObject
    /\ cand \in NewCandidates
    /\ SolutionId = 0
    /\ ks = NoObject
    /\ sol = NoObject
    /\ pc = "idle"
    /\ res = [op |-> "construct", arg |-> <<>>, err |-> None, val |-> <<>>]
    /\ log = [builds |-> 0, returned |-> 0, gets |-> 0, before |-> NoObject, passes |-> <<>>]

\* what the log keeps of a pass of _buildKernelSolution
PassRecord(created, built, gated, solved, result) ==
    [slot |-> TargetSlot(cand), variance |-> cand.varianceEstimate,
     created |-> created, built |-> built, gated |-> gated, solved |-> solved,
     result |-> result]

\* build() is left by an exception
BuildThrows(self, err, passes) ==
    /\ cand' = self
    /\ pc' = "idle"
    /\ res' = [res EXCEPT !.err = err]
    /\ log' = [log EXCEPT !.passes = passes]

\* build() goes on after a pass
BuildGoesOn(self, passes) ==
    /\ cand' = self
    /\ pc' = IF pc = "pass1" /\ SecondPass(self) THEN "reweight" ELSE "finish"
    /\ res' = res
    /\ log' = [log EXCEPT !.passes = passes]

\* cand.build(basisList, hMat) is called: the variance estimate of the first pass
CandBuildBegin ==
    /\ pc = "idle"
    /\ log.builds < MaxBuilds
    /\ \E args \in BuildArguments(cand) :
           res' = [op |-> "build", arg |-> args, err |-> "Running", val |-> <<>>]
    /\ cand' = [cand EXCEPT !.varianceEstimate = InitialVariance(cand)]
    /\ pc' = "pass1"
    /\ log' = [log EXCEPT !.builds = @ + 1, !.gets = 0, !.before = cand, !.passes = <<>>]
    /\ UNCHANGED <<SolutionId, ks, sol, visitor, kernelCells>>

\* one call of _buildKernelSolution(basisList, hMat)
CandBuildPass ==
    /\ pc \in {"pass1", "pass2"}
    /\ LET begun == beginBuildKernelSolution(cand, SolutionId + 1, res.arg.basisList,
                                             res.arg.hMat)
           target == TargetSolution(begun.self)
       IN  /\ SolutionId' = IF begun.created THEN SolutionId + 1 ELSE SolutionId
           /\ IF begun.err # None
              THEN BuildThrows(begun.self, begun.err,
                               Append(log.passes,
                                      PassRecord(begun.created, FALSE, FALSE, FALSE,
                                                 IF begun.created THEN target
                                                 ELSE NoObject)))
              ELSE \E exceeds \in IF cand.ps.checkConditionNumber
                                    THEN ConditionNumberExceeds(target.mMat,
                                                                cand.ps.conditionNumberType,
                                                                cand.ps.maxConditionNumber)
                                    ELSE {FALSE} :
                     IF gateTripped(begun.self, exceeds)
                     THEN BuildGoesOn([begun.self EXCEPT !.status = "BAD"],
                                      Append(log.passes,
                                             PassRecord(TRUE, TRUE, TRUE, FALSE, target)))
                     ELSE LET chosen == IF target.kind = "Regularized"
                                        THEN chooseLambda(target)
                                        ELSE [self |-> target, err |-> None]
                              matrix == IF target.kind = "Regularized"
                                        THEN getM(chosen.self, TRUE)
                                        ELSE target.mMat
                          IN  \E o \in solveOutcomes(matrix, chosen.self.bVec) :
                                LET solved == IF chosen.err # None THEN chosen
                                              ELSE StaticKernelSolution_solve(chosen.self, o)
                                    after == WithTargetSolution(begun.self, solved.self)
                                    passes == Append(log.passes,
                                                     PassRecord(TRUE, TRUE, FALSE,
                                                                solved.err = None,
                                                                solved.self))
                                IN  IF solved.err # None
                                    THEN BuildThrows(after, solved.err, passes)
                                    ELSE BuildGoesOn(after, passes)
    /\ UNCHANGED <<ks, sol, visitor, kernelCells>>

\* between the passes: diffim = getDifferenceImage(RECENT);
\* _varianceEstimate = diffim.getVariance()
CandBuildReweight ==
    /\ pc = "reweight"
    /\ LET diffim == CandidateGet(cand, "getDifferenceImage", "RECENT")
       IN  IF diffim.err # None THEN BuildThrows(cand, diffim.err, log.passes)
           ELSE /\ cand' = [cand EXCEPT !.varianceEstimate = diffim.val.variance]
                /\ pc' = "pass2"
                /\ UNCHANGED <<res, log>>
    /\ UNCHANGED <<SolutionId, ks, sol, visitor, kernelCells>>

\* the last statement of build(): _isInitialized = true
CandBuildFinish ==
    /\ pc = "finish"
    /\ cand' = [cand EXCEPT !.isInitialized = TRUE]
    /\ pc' = "idle"
    /\ res' = [res EXCEPT !.err = None]
    /\ log' = [log EXCEPT !.returned = @ + 1]
    /\ UNCHANGED <<SolutionId, ks, sol, visitor, kernelCells>>

\* one of the accessors is called with a switch value
CandGet ==
    /\ pc = "idle"
    /\ log.gets < MaxGets
    /\ \E name \in CandidateAccessors : \E switch \in CandidateSwitches :
           LET r == CandidateGet(cand, name, switch)
           IN  res' = [op |-> name, arg |-> switch, err |-> r.err, val |-> r.val]
    /\ log' = [log EXCEPT !.gets = @ + 1]
    /\ UNCHANGED <<SolutionId, ks, sol, cand, visitor, kernelCells, pc>>

NextCand ==
    \/ CandBuildBegin
    \/ CandBuildPass
    \/ CandBuildReweight
    \/ CandBuildFinish
    \/ CandGet

SpecCand == InitCand /\ [][NextCand]_vars

----------------------------------------------------------------------------
(* Claims about KernelSolution::solve(mMat, bVec) *)

Det(m) == IF Rows(m) = 1 THEN m[1][1] ELSE Det2(m)

IntVectors(n) == [1..n -> {Q(k) : k \in (-MaxEntry)..MaxEntry}]

SolveReturned == res.op = "solve" /\ res.err = None
SolveFailed == res.op = "solve" /\ res.err # None

\* C2: solvedBy is always one of NONE, LU, EIGENVECTOR; it is NONE from
\* construction until the first solve (only solve changes it); when solve(M, b)
\* returns normally solvedBy is LU or EIGENVECTOR and aVec has the length of bVec;
\* when solve fails solvedBy is NONE.
C2_SolvedBy ==
    /\ ks.solvedBy = "NONE"
    /\ [][ks'.solvedBy # ks.solvedBy => res'.op = "solve"]_vars
    /\ [](/\ ks.solvedBy \in {"NONE", "LU", "EIGENVECTOR"}
          /\ res.op = "construct" => ks.solvedBy = "NONE"
          /\ SolveReturned => /\ ks.solvedBy \in {"LU", "EIGENVECTOR"}
                              /\ Len(ks.aVec) = Len(ks.bVec)
          /\ SolveFailed => ks.solvedBy = "NONE")

\* a solve that failed on a solution that an earlier solve had solved
C2_Witness == SolveFailed /\ ks.aVec # <<>>

\* C3: on finite input, solve(M, b) ends with solvedBy = LU exactly when M is
\* invertible, and then M a = b; on a singular M it ends with EIGENVECTOR and a
\* is M+ b for the Moore-Penrose pseudo-inverse M+ (zero eigenvalues stay zero):
\* a is a least-squares solution, M (M a - b) = 0, and it is orthogonal to the
\* null space of M, which is M+ M a = a.
C3_LUOrPseudoInverse ==
    (SolveReturned /\ MatFinite(ks.mMat) /\ VecFinite(ks.bVec)) =>
        LET m == ks.mMat
            n == Rows(m)
            a == ks.aVec
        IN  /\ (ks.solvedBy = "LU") <=> (Det(m) # Zero)
            /\ ks.solvedBy = "LU" => MatVec(m, a) = ks.bVec
            /\ ks.solvedBy # "LU" =>
                   /\ ks.solvedBy = "EIGENVECTOR"
                   /\ VecFinite(a)
                   /\ MatVec(m, [i \in 1..n |-> RSub(MatVec(m, a)[i], ks.bVec[i])]) = ZeroVec(n)
                   /\ \A v \in IntVectors(n) : MatVec(m, v) = ZeroVec(n) => Dot(v, a) = Zero

\* a singular, nonzero 2x2 matrix solved through the eigenvector branch with a
\* nonzero result
C3_Witness ==
    /\ SolveReturned
    /\ MatFinite(ks.mMat) /\ VecFinite(ks.bVec)
    /\ Rows(ks.mMat) = 2
    /\ ks.solvedBy = "EIGENVECTOR"
    /\ ks.aVec # ZeroVec(2)

----------------------------------------------------------------------------
(* Claims about one stamp solution *)

HasNaN(v) == \E i \in 1..Len(v) : isnan(v[i])

BuildOps == {"build", "buildWithMask", "buildSingleMaskOrig"}

\* C1: an accessor of a StaticKernelSolution fails with the not-solved error as
\* long as no solve() on the solution has completed successfully (also after a
\* solve() that failed), and returns a value once one has.
C1_NotSolvedUntilSolved ==
    res.op \in Accessors => ((res.err = "Exception") <=> ~log.solved)

\* C4: solve() of a Static, Masked or Regularized solution never returns normally
\* with a NaN among the solved coefficients (kernel coefficients, and the
\* background coefficient when fitForBackground), and no NaN is ever stored as a
\* kernel parameter or as the background.
C4_NaNIsFatal ==
    /\ ~HasNaN(sol.kernel)
    /\ ~isnan(sol.background)
    /\ (res.op = "solve" /\ res.err = None) => ~HasNaN(sol.aVec)

\* a solve on finite normal equations that failed on a NaN kernel coefficient
C4_Witness ==
    /\ res.op = "solve"
    /\ res.err = "Exception"
    /\ MatFinite(sol.mMat)
    /\ sol.solvedBy = "LU"
    /\ isnan(sol.aVec[1])

\* C5: each of build, buildWithMask and buildSingleMaskOrig fails when some pixel
\* of the variance image is < 0 or == 0 (the minimum skips NaN pixels), and then
\* leaves C, V, Y, M and b as they were; when every pixel is > 0 or NaN the call
\* does not fail with that error.
C5_VarianceChecked ==
    [][res'.op \in BuildOps =>
          LET bad == \E p \in Pixels : \/ RLt(res'.arg.variance[p], Zero)
                                       \/ REq(res'.arg.variance[p], Zero)
          IN  /\ bad => /\ res'.err = "Exception"
                        /\ sol'.cMat = sol.cMat
                        /\ sol'.ivVec = sol.ivVec
                        /\ sol'.iVec = sol.iVec
                        /\ sol'.mMat = sol.mMat
                        /\ sol'.bVec = sol.bVec
              /\ ~bad => res'.err # "Exception"]_vars

\* a masked build refused for a zero variance on a solution built before
C5_Witness ==
    /\ res.op = "buildSingleMaskOrig"
    /\ res.err = "Exception"
    /\ res.arg.variance[Hot] = Zero
    /\ sol.cMat # <<>>

\* C6: after a successful build, C has one row per pixel of the image box shrunk
\* by the half-width of the first basis kernel and nKernel (+1 with
\* fitForBackground) columns, the last column all ones with fitForBackground;
\* with the pixels of that box in the order of the rows, V_i = 1/variance_i and
\* Y_i = science_i; M = C^T V C, b = C^T V Y, and M is symmetric.
C6_NormalEquations ==
    (res.op = "build" /\ res.err = None) =>
        LET k == sol.basisList[1]
            hwX == k.width \div 2
            hwY == k.height \div 2
            good == [minX |-> hwX, minY |-> hwY,
                     maxX |-> ImgW - 1 - hwX, maxY |-> ImgH - 1 - hwY]
            order == BoxPixelOrder(good)
            nR == (ImgW - 2 * hwX) * (ImgH - 2 * hwY)
            nP == Len(sol.basisList) + (IF sol.fitForBackground THEN 1 ELSE 0)
            vc == [r \in 1..nR |-> [c \in 1..nP |-> RMul(sol.ivVec[r], sol.cMat[r][c])]]
        IN  /\ Rows(sol.cMat) = nR
            /\ \A r \in 1..nR : Len(sol.cMat[r]) = nP
            /\ sol.fitForBackground => \A r \in 1..nR : sol.cMat[r][nP] = One
            /\ Len(sol.ivVec) = nR /\ Len(sol.iVec) = nR
            /\ \A r \in 1..nR : /\ sol.ivVec[r] = RDiv(One, res.arg.variance[order[r]])
                                /\ sol.iVec[r] = res.arg.science[order[r]]
            /\ sol.mMat = MatMul(Transpose(sol.cMat), vc)
            /\ sol.bVec = MatVec(Transpose(sol.cMat),
                                 [r \in 1..nR |-> RMul(sol.ivVec[r], sol.iVec[r])])
            /\ IsSymmetric(sol.mMat)

\* a build with a background column and unequal weights
C6_Witness ==
    /\ res.op = "build"
    /\ res.err = None
    /\ sol.fitForBackground
    /\ res.arg.variance[Hot] = Q(2)
    /\ MatFinite(sol.mMat)
    /\ sol.mMat[1][2] # Zero

----------------------------------------------------------------------------
(* Claims about KernelCandidate *)

\* the last build() call has come to its end
BuildEnded == res.op = "build" /\ pc = "idle"
BuildReturned == BuildEnded /\ res.err = None
BuildRaised == BuildEnded /\ res.err # None

\* the slot of self that a build() call begun in state before works on
SlotOf(self, before) ==
    IF before.isInitialized THEN self.kernelSolutionPca ELSE self.kernelSolutionOrig

C8_GateNeverRaises ==
    (BuildEnded /\ \E i \in 1..Len(log.passes) : log.passes[i].gated) =>
        /\ res.err = None
        /\ cand.status = "BAD"
        /\ \A i \in 1..Len(log.passes) : log.passes[i].gated => ~log.passes[i].solved

\* the solution an accessor reads under a switch value of ORIG, PCA or RECENT
SlotRead(switch) ==
    IF switch = "ORIG" THEN cand.kernelSolutionOrig
    ELSE IF switch = "PCA" THEN cand.kernelSolutionPca
    ELSE IF cand.kernelSolutionPca # NoObject THEN cand.kernelSolutionPca
    ELSE cand.kernelSolutionOrig

\* C9: for getKernel, getBackground, getKsum, getKernelImage, getKernelSolution
\* and getDifferenceImage, ORIG reads the original slot and PCA the pca slot, with
\* a runtime error when that slot is empty; RECENT reads the pca slot when it is
\* not empty, else the original slot, with a runtime error only when both are
\* empty; any other switch value gives a logic error; no accessor changes a slot.
C9_AccessorsBySwitch ==
    /\ [](res.op \in CandidateAccessors =>
            LET switch == res.arg
                read == SlotRead(switch)
            IN  /\ switch \notin {"ORIG", "PCA", "RECENT"} => res.err = "logic_error"
                /\ (switch \in {"ORIG", "PCA", "RECENT"} /\ read = NoObject) =>
                       res.err = "RuntimeError"
                /\ (switch \in {"ORIG", "PCA", "RECENT"} /\ read # NoObject) =>
                       /\ res.err \in {None, "Exception"}
                       /\ res.err = "Exception" <=>
                              (res.op # "getKernelSolution" /\ read.solvedBy = "NONE")
                       /\ res.err = None =>
                              res.val =
                                  CASE res.op = "getKernel" -> read.kernel
                                    [] res.op = "getBackground" -> read.background
                                    [] res.op = "getKsum" -> read.kSum
                                    [] res.op = "getKernelImage" ->
                                           KernelImage(read.basisList, read.kernel).img
                                    [] res.op = "getKernelSolution" -> read
                                    [] res.op = "getDifferenceImage" ->
                                           convolveAndSubtract(
                                               cand.templateMaskedImage,
                                               cand.scienceMaskedImage,
                                               KernelImage(read.basisList, read.kernel),
                                               read.background))
    /\ [][res'.op \in CandidateAccessors =>
              /\ cand'.kernelSolutionOrig = cand.kernelSolutionOrig
              /\ cand'.kernelSolutionPca = cand.kernelSolutionPca]_vars

\* RECENT read with both slots holding solved solutions of different kernels
C9_Witness ==
    /\ res.op = "getKernel"
    /\ res.arg = "RECENT"
    /\ res.err = None
    /\ cand.kernelSolutionOrig # NoObject
    /\ cand.kernelSolutionOrig.solvedBy # "NONE"
    /\ cand.kernelSolutionPca # NoObject
    /\ res.val = cand.kernelSolutionPca.kernel
    /\ res.val # cand.kernelSolutionOrig.kernel

\* the options of the candidate ask build() for two passes
TwoPasses == cand.ps.iterateSingleKernel /\ ~cand.ps.constantVarianceWeighting

\* science variance + template variance
VarianceSum ==
    [p \in Pixels |-> RAdd(log.before.scienceMaskedImage.variance[p],
                           log.before.templateMaskedImage.variance[p])]

\* the variance plane of the difference image of the solution a pass left
DiffimVariance(pass) ==
    convolveAndSubtract(log.before.templateMaskedImage, log.before.scienceMaskedImage,
                        KernelImage(pass.result.basisList, pass.result.kernel),
                        pass.result.background).variance

\* C10 as the code has it: a build() call with iterateSingleKernel true and
\* constantVarianceWeighting false that returns normally has built the target slot
\* exactly twice in strict sequence, first with variance = science variance +
\* template variance, then with the variance plane of the difference image of the
\* first pass's solution, both passes putting a new solution in the same slot; the
\* first pass is solved, the second one is solved unless the condition-number gate
\* trips in it; when the gate trips in the first pass the call raises after that
\* one build.  With iterateSingleKernel false or constantVarianceWeighting true a
\* call that returns normally has made exactly one pass, solved unless the gate
\* trips.  isInitialized becomes true only when build() returns, after the last pass.
C10_PassesOfBuild ==
    res.op = "build" =>
        LET passes == log.passes
            n == Len(passes)
        IN  /\ (pc # "idle" \/ BuildRaised) => cand.isInitialized = log.before.isInitialized
            /\ BuildReturned => cand.isInitialized
            /\ n <= IF TwoPasses THEN 2 ELSE 1
            /\ pc = "pass1" => n = 0
            /\ pc \in {"reweight", "pass2"} => n = 1 /\ TwoPasses
            /\ (pc = "finish" \/ BuildReturned) => n = IF TwoPasses THEN 2 ELSE 1
            /\ \A i \in 1..n :
                   /\ passes[i].slot = TargetSlot(log.before)
                   /\ passes[i].gated => cand.ps.checkConditionNumber
                   /\ (i < n \/ pc = "finish" \/ BuildReturned) =>
                          /\ passes[i].created /\ passes[i].built
                          /\ passes[i].solved <=> ~passes[i].gated
            /\ (n >= 1 /\ ~cand.ps.constantVarianceWeighting) =>
                   passes[1].variance = VarianceSum
            /\ n = 2 =>
                   /\ passes[1].solved
                   /\ passes[2].variance = DiffimVariance(passes[1])
                   /\ passes[2].created
                   /\ passes[2].result.id = passes[1].result.id + 1
            /\ (n >= 1 /\ passes[1].gated /\ TwoPasses /\ pc = "idle") =>
                   n = 1 /\ res.err = "Exception"

\* a call that made two passes and returned normally, the second pass under
\* another variance than the first
C10_Witness ==
    /\ BuildReturned
    /\ Len(log.passes) = 2
    /\ log.passes[1].solved
    /\ log.passes[2].solved
    /\ log.passes[2].variance # log.passes[1].variance
    /\ log.passes[2].result.kernel # log.passes[1].result.kernel

\* C10 as the claim has it: with iterateSingleKernel true and
\* constantVarianceWeighting false the target slot is built and solved exactly
\* twice, else exactly once
C10_BuiltAndSolvedTwice ==
    BuildReturned =>
        /\ Len(log.passes) = IF TwoPasses THEN 2 ELSE 1
        /\ TwoPasses => \A i \in 1..Len(log.passes) :
                            log.passes[i].built /\ log.passes[i].solved

----------------------------------------------------------------------------
(* Claims about RegularizedKernelSolution *)

\* the regularization strength the policy of sol asks for
PolicyLambda ==
    IF sol.policy.lambdaType = "absolute" THEN sol.policy.lambdaValue
    ELSE RMul(RDiv(Trace(sol.mMat), Trace(sol.hMat)), sol.policy.lambdaScaling)

\* M + lambda H with the lambda that sol stores
RegularizedM ==
    [i \in 1..Rows(sol.mMat) |-> [j \in 1..Rows(sol.mMat) |->
        RAdd(sol.mMat[i][j], RMul(sol.lambda, sol.hMat[i][j]))]]

----------------------------------------------------------------------------
(* Claims about MaskedKernelSolution::buildSingleMaskOrig *)

\* the pixels of box b
BoxPixels(b) == {p \in Pixels : BoxContains(b, p)}

\* the good region of the stamp: the pixels the convolution with the basis kernels
\* of sol leaves valid
GoodRegion == BoxPixels(shrinkBBox(sol.basisList[1], ImageBBox))

\* C19: when buildSingleMaskOrig returns, the top, bottom, left and right boxes
\* are pairwise disjoint, hold no pixel of maskBox and no pixel outside the good
\* region, together cover every good-region pixel outside maskBox, and the row
\* count of C, V and Y is the sum of the four areas.
C19_GoodRegionOutsideMaskOnce ==
    (res.op = "buildSingleMaskOrig" /\ res.err = None) =>
        LET boxes == boxArray(sol, res.arg.maskBox)
            area(i) == Cardinality(BoxPixels(boxes[i]))
        IN  /\ \A i, j \in 1..4 : i # j => BoxPixels(boxes[i]) \cap BoxPixels(boxes[j]) = {}
            /\ \A i \in 1..4 : BoxPixels(boxes[i]) \cap BoxPixels(res.arg.maskBox) = {}
            /\ \A i \in 1..4 : BoxPixels(boxes[i]) \subseteq GoodRegion
            /\ UNION {BoxPixels(boxes[i]) : i \in 1..4}
                   = GoodRegion \ BoxPixels(res.arg.maskBox)
            /\ Rows(sol.cMat) = area(1) + area(2) + area(3) + area(4)
            /\ Len(sol.ivVec) = Rows(sol.cMat)
            /\ Len(sol.iVec) = Rows(sol.cMat)

----------------------------------------------------------------------------
(* KernelSolution::getConditionNumber(conditionType), its value, on finite *)
(* symmetric matrices of at most two rows whose eigenvalues are rational:  *)
(* (t -+ sqrt(disc))/2 with disc = t^2 - 4 det a perfect square.           *)

\* disc is the square of a rational
IsSquare(q) == \E k \in 0..q[1] : \E l \in 1..q[2] : k * k = q[1] /\ l * l = q[2]

RSqrt(q) ==
    <<CHOOSE k \in 0..q[1] : k * k = q[1], CHOOSE l \in 1..q[2] : l * l = q[2]>>

Discriminant(m) == RSub(Sq(Trace(m)), RMul(Q(4), Det2(m)))

HasRationalEigenvalues(m) ==
    MatFinite(m) /\ (Rows(m) = 2 => IsSquare(Discriminant(m)))

\* eVecValues.eigenvalues(), in increasing order
Eigenvalues(m) ==
    IF Rows(m) = 1 THEN <<m[1][1]>>
    ELSE LET t == Trace(m)
             s == RSqrt(Discriminant(m))
         IN  <<RDiv(RSub(t, s), Q(2)), RDiv(RAdd(t, s), Q(2))>>

maxCoeff(v) == CHOOSE x \in {v[i] : i \in 1..Len(v)} : \A i \in 1..Len(v) : ~RLt(x, v[i])
minCoeff(v) == CHOOSE x \in {v[i] : i \in 1..Len(v)} : \A i \in 1..Len(v) : ~RLt(v[i], x)

\* mMat.jacobiSvd().singularValues(): those of a symmetric matrix are the absolute
\* values of its eigenvalues
SingularValues(m) == [i \in 1..Rows(m) |-> RAbs(Eigenvalues(m)[i])]

ConditionNumberTypes == {"EIGENVALUE", "SVD", "other"}

\* KernelSolution::getConditionNumber(mMat, conditionType)
getConditionNumber(mMat, conditionType) ==
    IF conditionType = "EIGENVALUE"
    THEN LET eValues == Eigenvalues(mMat)
         IN  [val |-> RDiv(maxCoeff(eValues), minCoeff(eValues)), err |-> None]
    ELSE IF conditionType = "SVD"
    THEN LET sValues == SingularValues(mMat)
         IN  [val |-> RDiv(maxCoeff(sValues), minCoeff(sValues)), err |-> None]
    ELSE [val |-> <<>>, err |-> "InvalidParameterError"]

\* a KernelSolution over a matrix with rational eigenvalues
InitCond ==
    /\ visitor = NoObject
    /\ kernelCells = NoObject
    /\ \E m \in {x \in LinMatrices : HasRationalEigenvalues(x)} :
       \E b \in LinVectors(Rows(m)) : \E fit \in BOOLEAN :
           ks = KernelSolution(1, m, b, fit)
    /\ SolutionId = 1
    /\ sol = NoObject
    /\ cand = NoObject
    /\ pc = "idle"
    /\ res = [op |-> "construct", arg |-> <<>>, err |-> None, val |-> <<>>]
    /\ log = <<>>

\* ks.getConditionNumber(conditionType)
CondGet ==
    /\ \E conditionType \in ConditionNumberTypes :
           LET r == getConditionNumber(ks.mMat, conditionType)
           IN  res' = [op |-> "getConditionNumber", arg |-> conditionType,
                       err |-> r.err, val |-> r.val]
    /\ UNCHANGED <<SolutionId, ks, sol, cand, visitor, kernelCells, pc, log>>

NextCond ==
    \/ CondGet
    \/ LinSolve

SpecCond == InitCond /\ [][NextCond]_vars

\* C17: getConditionNumber(EIGENVALUE) returns the largest absolute eigenvalue of
\* M over the smallest, getConditionNumber(SVD) the largest singular value over
\* the smallest, any other selector fails with an invalid-input error, and the
\* call leaves M, b, a and solvedBy as they were.
C17_AbsoluteRatios ==
    /\ [](res.op = "getConditionNumber" =>
             LET absolute == [i \in 1..Rows(ks.mMat) |-> RAbs(Eigenvalues(ks.mMat)[i])]
                 ratio == RDiv(maxCoeff(absolute), minCoeff(absolute))
             IN  /\ res.arg = "EIGENVALUE" => res.err = None /\ res.val = ratio
                 /\ res.arg = "SVD" => res.err = None /\ res.val = ratio
                 /\ res.arg = "other" => res.err = "InvalidParameterError")
    /\ [][res'.op = "getConditionNumber" /\ res' # res => ks' = ks]_vars

----------------------------------------------------------------------------
(* Exact inverse and pseudo-inverse of a finite symmetric matrix of any    *)
(* size, by the Faddeev-LeVerrier recurrence M_1 = I, c_k = -tr(M M_k)/k,  *)
(* M_(k+1) = M M_k + c_k I: with r the last k whose c_k is not 0, the      *)
(* matrix is invertible iff r = n, its inverse is -M_n/c_n, and the        *)
(* pseudo-inverse R diag(1/e_i, e_i # 0) R^T is M (M_r/c_r)^2.             *)

\* a matrix with every entry computed: the model checker would otherwise compute
\* an entry again each time it is read
Computed(m) == [i \in 1..Rows(m) |-> m[i] \o <<>>] \o <<>>

\* M_k, M M_k and c_k, given the steps before
CharStep(m, k, prev) ==
    LET n == Rows(m)
    IN  CHOOSE step \in UNION {
            {[m |-> mk, mm |-> mm, c |-> RDiv(RNeg(Trace(mm)), Q(k))] :
                mm \in {Computed(MatMul(m, mk))}} :
            mk \in {IF k = 1 THEN Identity(n)
                    ELSE Computed(MatAdd(prev[k - 1].mm,
                                         MatScale(prev[k - 1].c, Identity(n))))}} : TRUE

RECURSIVE CharSteps(_, _)
CharSteps(m, k) ==
    IF k = 0 THEN <<>>
    ELSE CHOOSE steps \in {Append(prev, CharStep(m, k, prev)) : prev \in {CharSteps(m, k - 1)}} :
             TRUE

\* the rank of a symmetric matrix, given its recurrence
StepsRank(steps) ==
    IF \A k \in 1..Len(steps) : steps[k].c = Zero THEN 0
    ELSE CHOOSE r \in 1..Len(steps) :
             steps[r].c # Zero /\ \A k \in (r + 1)..Len(steps) : steps[k].c = Zero

\* lu.isInvertible() and lu.solve(bVec), rMat * eValues.asDiagonal() * rMat.transpose() * bVec
\* on a finite system of more than two unknowns, given the recurrence of mMat
solveOutcomes_steps(mMat, bVec, steps) ==
    LET n == Rows(mMat)
        r == StepsRank(steps)
    IN  IF r = n
        THEN {[solvedBy |-> "LU",
               aVec |-> MatVec(MatScale(RNeg(RInv(steps[n].c)), steps[n].m), bVec) \o <<>>,
               thrown |-> FALSE]}
        ELSE {[solvedBy |-> "EIGENVECTOR",
               aVec |-> IF r = 0 THEN ZeroVec(n)
                        ELSE LET g == MatScale(RInv(steps[r].c), steps[r].m)
                                 gb == MatVec(g, bVec) \o <<>>
                                 ggb == MatVec(g, gb) \o <<>>
                             IN  MatVec(mMat, ggb) \o <<>>,
               thrown |-> FALSE],
              [solvedBy |-> "EIGENVECTOR", aVec |-> <<>>, thrown |-> TRUE]}

solveOutcomes_finite(mMat, bVec) ==
    UNION {solveOutcomes_steps(mMat, bVec, steps) : steps \in {CharSteps(mMat, Rows(mMat))}}

\* KernelSolution::solve(mMat, bVec) for a system of any size
solveOutcomes_any(mMat, bVec) ==
    IF Rows(mMat) <= 2 \/ ~MatFinite(mMat) THEN solveOutcomes(mMat, bVec)
    ELSE solveOutcomes_finite(mMat, bVec)

----------------------------------------------------------------------------
(* class SpatialKernelSolution.  A spatial function is linear in its       *)
(* parameters: terms lists the monomials x^ex y^ey its parameters          *)
(* multiply, params holds the parameters.                                  *)

RECURSIVE Power(_, _)
Power(x, e) == IF e = 0 THEN One ELSE RMul(x, Power(x, e - 1))

\* (*function)(x, y)
FunctionValue(terms, params, x, y) ==
    RSum([i \in 1..Len(terms) |->
             RMul(params[i], RMul(Power(x, terms[i][1]), Power(y, terms[i][2])))])

UnitParameters(n, idx) == [i \in 1..n |-> IF i = idx THEN One ELSE Zero]

\* SpatialKernelSolution::SpatialKernelSolution(basisList, spatialKernelFunction,
\* background, policy), with id = ++_SolutionId
SpatialKernelSolution(id, basisList, spatialKernelFunction, background, policy) ==
    LET constantFirstTerm ==
            policy.kernelBasisSet = "alard-lupton" \/ policy.usePcaForSpatialKernel
        nbases == Len(basisList)
        nkt == Len(spatialKernelFunction.params)
        nbt == IF policy.fitForBackground THEN Len(background.params) ELSE 0
        nt == IF constantFirstTerm THEN (nbases - 1) * nkt + 1 + nbt ELSE nbases * nkt + nbt
    IN  [kind |-> "Spatial", id |-> id,
         mMat |-> [i \in 1..nt |-> ZeroVec(nt)], bVec |-> ZeroVec(nt),
         aVec |-> <<>>, solvedBy |-> "NONE",
         fitForBackground |-> policy.fitForBackground,
         spatialKernelFunction |-> spatialKernelFunction,
         constantFirstTerm |-> constantFirstTerm,
         basisList |-> basisList,
         kernel |-> [spatial |-> TRUE,
                     params |-> [i \in 1..nbases |-> spatialKernelFunction.params]],
         background |-> background, kSum |-> Zero, policy |-> policy,
         nbases |-> nbases, nkt |-> nkt, nbt |-> nbt, nt |-> nt]

\* a mutated shift: the blocks are laid out as if the first term varied
BlockShift_none(self) == 0

\* dm: how many rows and columns the blocks are shifted by because the first term
\* has no spatial variation
BlockShift(self) == IF self.constantFirstTerm THEN self.nkt - 1 ELSE 0

\* a mutated view: the whole block
UpperTriangular_full(r, c) == TRUE

\* triangularView<Eigen::Upper>: the entries of a block on and above its diagonal
UpperTriangular(r, c) == r <= c

\* pK(idx): the spatial kernel function with the unit parameter idx, at the centre
pKOf(self, xCenter, yCenter) ==
    [idx \in 1..self.nkt |->
        FunctionValue(self.spatialKernelFunction.terms, UnitParameters(self.nkt, idx),
                      xCenter, yCenter)]

\* pB(idx): the background function with the unit parameter idx, at the centre
pBOf(self, xCenter, yCenter) ==
    [idx \in 1..self.nbt |->
        FunctionValue(self.background.terms, UnitParameters(self.nbt, idx),
                      xCenter, yCenter)]

\* The operations "+=" of SpatialKernelSolution::addConstraint on _mMat, one record
\* per entry: i and j are the row and the column counted from 0 as in the source,
\* v is the value added, blk names the statement.
mMatUpdates(self, xCenter, yCenter, qMat) ==
    LET pK == pKOf(self, xCenter, yCenter)
        pB == pBOf(self, xCenter, yCenter)
        nbases == self.nbases
        nkt == self.nkt
        nbt == self.nbt
        m0 == IF self.constantFirstTerm THEN 1 ELSE 0
        dm == BlockShift(self)
        mb == self.nt - nbt
        q(a, b) == qMat[a + 1][b + 1]
        first ==
            IF ~self.constantFirstTerm THEN {}
            ELSE {[blk |-> "first", i |-> 0, j |-> 0, v |-> q(0, 0)]}
                 \cup {[blk |-> "firstKernel", i |-> 0, j |-> m2 * nkt - dm + c,
                        v |-> RMul(q(0, m2), pK[c + 1])] :
                           m2 \in 1..(nbases - 1), c \in 0..(nkt - 1)}
                 \cup (IF ~self.fitForBackground THEN {}
                       ELSE {[blk |-> "firstBackground", i |-> 0, j |-> mb + c,
                              v |-> RMul(q(0, nbases), pB[c + 1])] : c \in 0..(nbt - 1)})
        diagonal ==
            {[blk |-> "diagonal", i |-> rc[1] * nkt - dm + rc[2], j |-> rc[1] * nkt - dm + rc[3],
              v |-> RMul(RMul(pK[rc[2] + 1], pK[rc[3] + 1]), q(rc[1], rc[1]))] :
                 rc \in {x \in (m0..(nbases - 1)) \X (0..(nkt - 1)) \X (0..(nkt - 1)) :
                            UpperTriangular(x[2], x[3])}}
        kernelKernel ==
            {[blk |-> "kernelKernel", i |-> mm[1] * nkt - dm + rc[1],
              j |-> mm[2] * nkt - dm + rc[2],
              v |-> RMul(q(mm[1], mm[2]), RMul(pK[rc[1] + 1], pK[rc[2] + 1]))] :
                 mm \in {x \in (m0..(nbases - 1)) \X (m0..(nbases - 1)) : x[1] < x[2]},
                 rc \in (0..(nkt - 1)) \X (0..(nkt - 1))}
        cross ==
            IF ~self.fitForBackground THEN {}
            ELSE {[blk |-> "cross", i |-> m1 * nkt - dm + rc[1], j |-> mb + rc[2],
                   v |-> RMul(q(m1, nbases), RMul(pK[rc[1] + 1], pB[rc[2] + 1]))] :
                      m1 \in m0..(nbases - 1), rc \in (0..(nkt - 1)) \X (0..(nbt - 1))}
        backgroundBackground ==
            IF ~self.fitForBackground THEN {}
            ELSE {[blk |-> "background", i |-> mb + rc[1], j |-> mb + rc[2],
                   v |-> RMul(RMul(pB[rc[1] + 1], pB[rc[2] + 1]), q(nbases, nbases))] :
                      rc \in {x \in (0..(nbt - 1)) \X (0..(nbt - 1)) : UpperTriangular(x[1], x[2])}}
    IN  first \cup diagonal \cup kernelKernel \cup cross \cup backgroundBackground

\* the operations "+=" of addConstraint on _bVec: basis and term tell which entry of
\* wVec and which entry of pK or pB the value is made of
bVecUpdates(self, xCenter, yCenter, wVec) ==
    LET pK == pKOf(self, xCenter, yCenter)
        pB == pBOf(self, xCenter, yCenter)
        nkt == self.nkt
        m0 == IF self.constantFirstTerm THEN 1 ELSE 0
        dm == BlockShift(self)
        mb == self.nt - self.nbt
    IN  (IF self.constantFirstTerm
         THEN {[blk |-> "first", i |-> 0, v |-> wVec[1], basis |-> 0, term |-> 0]}
         ELSE {})
        \cup {[blk |-> "kernel", i |-> m1 * nkt - dm + r, v |-> RMul(wVec[m1 + 1], pK[r + 1]),
               basis |-> m1, term |-> r] :
                 m1 \in m0..(self.nbases - 1), r \in 0..(nkt - 1)}
        \cup (IF ~self.fitForBackground THEN {}
              ELSE {[blk |-> "background", i |-> mb + r,
                     v |-> RMul(wVec[self.nbases + 1], pB[r + 1]),
                     basis |-> self.nbases, term |-> r] : r \in 0..(self.nbt - 1)})

\* the sum of the values of a set of updates
RECURSIVE UpdateSum(_)
UpdateSum(us) ==
    IF us = {} THEN Zero
    ELSE LET u == CHOOSE x \in us : TRUE IN RAdd(u.v, UpdateSum(us \ {u}))

\* the last setParameters call of the loop over idx leaves the function with the
\* unit parameters of its last index
AfterUnitLoop(function) ==
    IF function.params = <<>> THEN function
    ELSE [function EXCEPT !.params = UnitParameters(Len(function.params), Len(function.params))]

\* SpatialKernelSolution::addConstraint(xCenter, yCenter, qMat, wVec)
addConstraint(self, xCenter, yCenter, qMat, wVec) ==
    LET mus == mMatUpdates(self, xCenter, yCenter, qMat)
        bus == bVecUpdates(self, xCenter, yCenter, wVec)
    IN  [self EXCEPT
            !.mMat = [i \in 1..self.nt |-> [j \in 1..self.nt |->
                         LET here == {u \in mus : u.i = i - 1 /\ u.j = j - 1}
                         IN  IF here = {} THEN self.mMat[i][j]
                             ELSE RAdd(self.mMat[i][j], UpdateSum(here))]],
            !.bVec = [i \in 1..self.nt |->
                         LET here == {u \in bus : u.i = i - 1}
                         IN  IF here = {} THEN self.bVec[i]
                             ELSE RAdd(self.bVec[i], UpdateSum(here))],
            !.spatialKernelFunction = AfterUnitLoop(self.spatialKernelFunction),
            !.background = IF self.fitForBackground THEN AfterUnitLoop(self.background)
                           ELSE self.background]

\* a mutated loop: the lower half is left as it is
FillLowerHalf_skipped(mMat) == mMat

\* the loop of SpatialKernelSolution::solve that fills in the other half of mMat
FillLowerHalf(mMat) ==
    [j \in 1..Rows(mMat) |-> [i \in 1..Rows(mMat) |->
        IF j > i THEN mMat[i][j] ELSE mMat[j][i]]]

\* a mutated counter: the coefficients are read basis by basis for each term
CoefficientIndex_byTerm(self, i, j) ==
    IF self.constantFirstTerm /\ self.nkt # 1
    THEN (IF i = 0 THEN 0 ELSE 1 + j * (self.nbases - 1) + (i - 1))
    ELSE j * self.nbases + i

\* the index of _aVec that _setKernel reads for kCoeffs[i][j], counted from 0, in
\* the order of its running counter idx
CoefficientIndex(self, i, j) ==
    IF self.constantFirstTerm /\ self.nkt # 1
    THEN (IF i = 0 THEN 0 ELSE 1 + (i - 1) * self.nkt + j)
    ELSE i * self.nkt + j

\* the entries kCoeffs[i][j] that _setKernel assigns from _aVec
AssignedCoefficients(self) ==
    {ij \in (0..(self.nbases - 1)) \X (0..(self.nkt - 1)) :
        ~(self.constantFirstTerm /\ self.nkt # 1 /\ ij[1] = 0 /\ ij[2] > 0)}

\* the message of the exception for a NaN background coefficient
BackgroundNanMessage == [text |-> "Unable to determine spatial background solution (nan)",
                         conditionNumber |-> FALSE]

\* the message of the exception for a NaN kernel coefficient
KernelNanMessage(self, i) ==
    [text |-> IF self.nkt = 1 THEN "I. Unable to determine spatial kernel solution (nan)"
              ELSE IF i = 0 /\ self.constantFirstTerm
              THEN "II. Unable to determine spatial kernel solution (nan)"
              ELSE "III. Unable to determine spatial kernel solution (nan)",
     conditionNumber |-> TRUE]

\* SpatialKernelSolution::_setKernel: the solution afterwards, the exception thrown
\* and its message
Spatial_setKernel(self) ==
    LET assigned == AssignedCoefficients(self)
        nans == {ij \in assigned : isnan(self.aVec[CoefficientIndex(self, ij[1], ij[2]) + 1])}
        firstNan == CHOOSE ij \in nans :
                        \A o \in nans : CoefficientIndex(self, ij[1], ij[2])
                                            <= CoefficientIndex(self, o[1], o[2])
        kCoeffs == [i \in 1..self.nbases |-> [j \in 1..self.nkt |->
                       IF <<i - 1, j - 1>> \in assigned
                       THEN self.aVec[CoefficientIndex(self, i - 1, j - 1) + 1]
                       ELSE Zero]]
        kernel == IF self.nkt = 1
                  THEN [spatial |-> FALSE, params |-> [i \in 1..self.nbases |-> kCoeffs[i][1]]]
                  ELSE [spatial |-> TRUE, params |-> kCoeffs]
        atOrigin == [i \in 1..self.nbases |->
                        IF self.nkt = 1 THEN kCoeffs[i][1]
                        ELSE FunctionValue(self.spatialKernelFunction.terms, kCoeffs[i],
                                           Zero, Zero)]
        withKernel == [self EXCEPT !.kernel = kernel,
                                   !.kSum = KernelSum(self.basisList, atOrigin)]
        bgCoeffs == IF self.fitForBackground
                    THEN [i \in 1..self.nbt |-> self.aVec[self.nt - self.nbt + i]]
                    ELSE <<Zero>>
    IN  IF nans # {}
        THEN [self |-> self, err |-> "Exception", msg |-> KernelNanMessage(self, firstNan[1])]
        ELSE IF \E i \in 1..Len(bgCoeffs) : isnan(bgCoeffs[i])
        THEN [self |-> withKernel, err |-> "Exception", msg |-> BackgroundNanMessage]
        ELSE [self |-> [withKernel EXCEPT !.background.params = bgCoeffs],
              err |-> None, msg |-> <<>>]

\* SpatialKernelSolution::solve, leaving KernelSolution::solve() through outcome o
SpatialKernelSolution_solve(self, o) ==
    LET solved == KernelSolution_solve(self, o)
    IN  IF o.thrown
        THEN [self |-> solved, err |-> "Exception",
              msg |-> [text |-> "Unable to solve spatial kernel matrix",
                       conditionNumber |-> FALSE]]
        ELSE Spatial_setKernel(solved)

----------------------------------------------------------------------------
(* One spatial solution on its own: constructed, then given constraints    *)
(* and solved in any order.                                                *)

\* at most MaxAdds addConstraint calls and MaxSolves solve calls are made
MaxAdds == 2
MaxSolves == 2

\* PolynomialFunction2 of order 0 and of order 1, and a function of two parameters
SpatialFunctions ==
    {[terms |-> t, params |-> ZeroVec(Len(t))] :
        t \in {<<<<0, 0>>>>, <<<<0, 0>>, <<1, 0>>>>, <<<<0, 0>>, <<1, 0>>, <<0, 1>>>>}}

SpatialPolicies ==
    {[kernelBasisSet |-> "alard-lupton", usePcaForSpatialKernel |-> FALSE, fitForBackground |-> f] :
        f \in BOOLEAN}
    \cup {[kernelBasisSet |-> "delta-function", usePcaForSpatialKernel |-> FALSE,
           fitForBackground |-> f] : f \in BOOLEAN}
    \cup {[kernelBasisSet |-> "delta-function", usePcaForSpatialKernel |-> TRUE,
           fitForBackground |-> TRUE]}

\* the solutions of one or two basis kernels and at most four unknowns; without a
\* background fit the background function has the one parameter _setKernel gives it
NewSpatialSolutions ==
    {s \in {SpatialKernelSolution(1, bl, kf, bf, p) :
               bl \in {<<CentreDelta>>, <<CentreDelta, LeftDelta>>},
               kf \in SpatialFunctions,
               bf \in {f \in SpatialFunctions : Len(f.params) <= 2},
               p \in SpatialPolicies} :
        /\ s.nt <= 4
        /\ ~s.fitForBackground => Len(s.background.params) = 1}

\* the centres of the stamps
Centres == {<<Zero, Zero>>, <<One, Zero>>, <<Zero, One>>}

\* the M and b of a stamp solution of k unknowns: symmetric and finite, and, for the
\* systems whose LU solve is modelled on an infinite right-hand side, one with an
\* infinite b
StampSolutions(k, nt) ==
    {[qMat |-> [i \in 1..k |-> [j \in 1..k |-> IF i = j THEN Q(2) ELSE One]],
      wVec |-> [i \in 1..k |-> Q(i)]],
     [qMat |-> [i \in 1..k |-> [j \in 1..k |-> IF i <= j THEN Q(i) ELSE Q(j)]],
      wVec |-> [i \in 1..k |-> One]]}
    \cup (IF nt <= 2
          THEN {[qMat |-> [i \in 1..k |-> [j \in 1..k |-> Q(i + j - 2)]],
                 wVec |-> [i \in 1..k |-> IF i = k THEN PInf ELSE Zero]]}
          ELSE {})

InitSpat ==
    /\ visitor = NoObject
    /\ kernelCells = NoObject
    /\ sol \in NewSpatialSolutions
    /\ SolutionId = 1
    /\ ks = NoObject
    /\ cand = NoObject
    /\ pc = "idle"
    /\ res = [op |-> "construct", arg |-> <<>>, err |-> None, val |-> <<>>]
    /\ log = [added |-> <<>>, solves |-> 0, trace |-> <<>>, before |-> NoObject]

\* sol.addConstraint(xCenter, yCenter, qMat, wVec) with the M and b of a stamp
\* solution over the same basis list
SpatAddConstraint ==
    /\ Len(log.added) < MaxAdds
    /\ \E c \in Centres :
       \E st \in StampSolutions(sol.nbases + (IF sol.fitForBackground THEN 1 ELSE 0), sol.nt) :
           LET arg == [xCenter |-> c[1], yCenter |-> c[2], qMat |-> st.qMat, wVec |-> st.wVec]
           IN  /\ sol' = addConstraint(sol, c[1], c[2], st.qMat, st.wVec)
               /\ res' = [op |-> "addConstraint", arg |-> arg, err |-> None, val |-> <<>>]
               /\ log' = [log EXCEPT !.added = Append(@, arg),
                                      !.trace = Append(@, "addConstraint"), !.before = sol]
    /\ UNCHANGED <<SolutionId, ks, cand, visitor, kernelCells, pc>>

\* sol.solve()
SpatSolve ==
    /\ log.solves < MaxSolves
    /\ LET filled == [sol EXCEPT !.mMat = Computed(FillLowerHalf(sol.mMat))]
       IN  \E o \in solveOutcomes_any(filled.mMat, filled.bVec) :
               LET r == SpatialKernelSolution_solve(filled, o)
               IN  /\ sol' = r.self
                   /\ res' = [op |-> "solve", arg |-> <<>>, err |-> r.err, val |-> r.msg]
    /\ log' = [log EXCEPT !.solves = @ + 1, !.trace = Append(@, "solve"), !.before = sol]
    /\ UNCHANGED <<SolutionId, ks, cand, visitor, kernelCells, pc>>

NextSpat ==
    \/ SpatAddConstraint
    \/ SpatSolve

SpecSpat == InitSpat /\ [][NextSpat]_vars

----------------------------------------------------------------------------
(* Claims about SpatialKernelSolution *)

\* the number of unknowns of sol, from its basis list, its two functions and its flags
ExpectedNt ==
    LET nBases == Len(sol.basisList)
        nKt == Len(sol.spatialKernelFunction.params)
        nBt == IF sol.fitForBackground THEN Len(sol.background.params) ELSE 0
    IN  IF sol.constantFirstTerm THEN (nBases - 1) * nKt + 1 + nBt ELSE nBases * nKt + nBt

\* the basis that row r of the spatial system belongs to, counted from 0; the
\* background counts as the basis after the last
RowBasis(r) ==
    IF r >= sol.nt - sol.nbt THEN sol.nbases
    ELSE IF sol.constantFirstTerm THEN (IF r = 0 THEN 0 ELSE 1 + ((r - 1) \div sol.nkt))
    ELSE r \div sol.nkt

\* the factor of row r for a stamp at (x, y): the entry of pB or of pK the row
\* stands for, and the scalar 1 for the first basis under constantFirstTerm
RowFactor(r, x, y) ==
    IF r >= sol.nt - sol.nbt THEN pBOf(sol, x, y)[r - (sol.nt - sol.nbt) + 1]
    ELSE IF sol.constantFirstTerm
    THEN (IF r = 0 THEN One ELSE pKOf(sol, x, y)[((r - 1) % sol.nkt) + 1])
    ELSE pKOf(sol, x, y)[(r % sol.nkt) + 1]

\* the sums over the stamps added so far
ExpectedM ==
    [i \in 1..sol.nt |-> [j \in 1..sol.nt |->
        RSum([s \in 1..Len(log.added) |->
                 LET st == log.added[s]
                 IN  RMul(st.qMat[RowBasis(i - 1) + 1][RowBasis(j - 1) + 1],
                          RMul(RowFactor(i - 1, st.xCenter, st.yCenter),
                               RowFactor(j - 1, st.xCenter, st.yCenter)))])]]

ExpectedB ==
    [i \in 1..sol.nt |->
        RSum([s \in 1..Len(log.added) |->
                 LET st == log.added[s]
                 IN  RMul(st.wVec[RowBasis(i - 1) + 1],
                          RowFactor(i - 1, st.xCenter, st.yCenter))])]

\* C11: after any sequence of addConstraint calls with solve calls in between, a
\* solve leaves M equal to the symmetric matrix of the sums over the stamps added so
\* far of Q(m1, m2) times the factors of the two rows, and b equal to the sums of
\* w(m1) times the factor of the row.
C11_SumsOverStamps ==
    res.op = "solve" =>
        /\ sol.mMat = ExpectedM
        /\ sol.bVec = ExpectedB
        /\ IsSymmetric(sol.mMat)

\* two stamps at different centres with a solve between them and one at the end,
\* on two bases with a constant first term and a spatially varying second one
C11_Witness ==
    /\ res.op = "solve"
    /\ log.trace = <<"addConstraint", "solve", "addConstraint", "solve">>
    /\ log.added[1].xCenter # log.added[2].xCenter
    /\ log.added[1].qMat # log.added[2].qMat
    /\ sol.constantFirstTerm /\ sol.nbases = 2 /\ sol.nkt >= 2 /\ sol.fitForBackground
    /\ sol.mMat = ExpectedM
    /\ \E i, j \in 1..sol.nt : i < j /\ sol.mMat[j][i] # Zero
    /\ sol.mMat # log.before.mMat

\* C12: M is nt x nt and b has nt entries at every moment, nt being
\* (nBases-1) nKt + 1 + nBt under constantFirstTerm and nBases nKt + nBt otherwise,
\* with nBt = 0 without a background fit; they are zero after construction, and
\* every row and column addConstraint writes lies in 0..nt-1.
C12_SizesAndIndices ==
    /\ Rows(sol.mMat) = ExpectedNt
    /\ \A i \in 1..Rows(sol.mMat) : Len(sol.mMat[i]) = ExpectedNt
    /\ Len(sol.bVec) = ExpectedNt
    /\ sol.nt = ExpectedNt
    /\ res.op = "construct" =>
           /\ \A i, j \in 1..ExpectedNt : sol.mMat[i][j] = Zero
           /\ \A i \in 1..ExpectedNt : sol.bVec[i] = Zero
    /\ res.op = "addConstraint" =>
           /\ \A u \in mMatUpdates(log.before, res.arg.xCenter, res.arg.yCenter, res.arg.qMat) :
                  u.i \in 0..(ExpectedNt - 1) /\ u.j \in 0..(ExpectedNt - 1)
           /\ \A u \in bVecUpdates(log.before, res.arg.xCenter, res.arg.yCenter, res.arg.wVec) :
                  u.i \in 0..(ExpectedNt - 1)

\* an addConstraint under constantFirstTerm that writes the last row and column
C12_Witness ==
    /\ res.op = "addConstraint"
    /\ sol.constantFirstTerm /\ sol.nbases = 2 /\ sol.nkt = 3 /\ sol.nt = 4
    /\ \E u \in mMatUpdates(log.before, res.arg.xCenter, res.arg.yCenter, res.arg.qMat) :
           u.i = 3 /\ u.j = 3 /\ u.v # Zero
    /\ sol.mMat[4][4] # Zero

\* C13: addConstraint writes only entries (i, j) with i <= j and leaves the others as
\* they were, so the strictly lower triangle is zero until the first solve; solve
\* copies the upper triangle onto the lower one before the linear solve, so the
\* matrix the linear solver is given is symmetric.
C13_UpperTriangleOnly ==
    /\ res.op = "addConstraint" =>
           /\ \A u \in mMatUpdates(log.before, res.arg.xCenter, res.arg.yCenter, res.arg.qMat) :
                  u.i <= u.j
           /\ \A i, j \in 1..sol.nt : i > j => sol.mMat[i][j] = log.before.mMat[i][j]
    /\ log.solves = 0 => \A i, j \in 1..sol.nt : i > j => sol.mMat[i][j] = Zero
    /\ res.op = "solve" =>
           /\ IsSymmetric(sol.mMat)
           /\ \A i, j \in 1..sol.nt : i <= j => sol.mMat[i][j] = log.before.mMat[i][j]

\* the first solve, on a matrix whose upper triangle alone was filled
C13_Witness ==
    /\ res.op = "solve"
    /\ log.solves = 1
    /\ \E i, j \in 1..sol.nt :
           i < j /\ log.before.mMat[i][j] # Zero /\ log.before.mMat[j][i] = Zero
                 /\ sol.mMat[j][i] = log.before.mMat[i][j]

\* kCoeffs[i][j] of the kernel of sol, i and j counted from 0
KernelCoefficient(i, j) ==
    IF sol.kernel.spatial THEN sol.kernel.params[i + 1][j + 1] ELSE sol.kernel.params[i + 1]

\* C14: after a solve that succeeds, kCoeffs[i][j] = a[i nKt + j] without
\* constantFirstTerm; with it kCoeffs[0][0] = a[0], kCoeffs[0][j] = 0 for j >= 1 and
\* kCoeffs[i][j] = a[i nKt - (nKt-1) + j] for i >= 1; background coefficient k is
\* a[nt - nBt + k]; the entry of a each coefficient is read from is the row
\* addConstraint packs that coefficient's terms into, and every entry of a is read
\* exactly once.
C14_UnpackLayout ==
    (res.op = "solve" /\ res.err = None) =>
        LET a(idx) == sol.aVec[idx + 1]
            packed == bVecUpdates(sol, Zero, Zero, ZeroVec(sol.nbases + 1))
        IN  /\ Len(sol.aVec) = sol.nt
            /\ ~sol.constantFirstTerm =>
                   \A i \in 0..(sol.nbases - 1) : \A j \in 0..(sol.nkt - 1) :
                       KernelCoefficient(i, j) = a(i * sol.nkt + j)
            /\ sol.constantFirstTerm =>
                   /\ KernelCoefficient(0, 0) = a(0)
                   /\ \A j \in 1..(sol.nkt - 1) : KernelCoefficient(0, j) = Zero
                   /\ \A i \in 1..(sol.nbases - 1) : \A j \in 0..(sol.nkt - 1) :
                          KernelCoefficient(i, j) = a(i * sol.nkt - (sol.nkt - 1) + j)
            /\ sol.fitForBackground =>
                   \A k \in 0..(sol.nbt - 1) :
                       sol.background.params[k + 1] = a(sol.nt - sol.nbt + k)
            /\ \A u \in packed :
                   IF u.blk = "background" THEN sol.background.params[u.term + 1] = a(u.i)
                   ELSE KernelCoefficient(u.basis, u.term) = a(u.i)
            /\ {u.i : u \in packed} = 0..(sol.nt - 1)
            /\ Cardinality(packed) = sol.nt

\* a solve by LU under constantFirstTerm with two bases of two or more terms, and
\* one without it, whose solutions have entries that differ from each other
C14_Witness ==
    /\ res.op = "solve" /\ res.err = None
    /\ sol.solvedBy = "LU"
    /\ sol.nbases = 2 /\ sol.nkt >= 2 /\ sol.nt = 4
    /\ \A i, j \in 1..sol.nt : i # j => sol.aVec[i] # sol.aVec[j]
    /\ \A i \in 1..sol.nt : IsFinite(sol.aVec[i]) /\ sol.aVec[i] # Zero
    /\ sol.constantFirstTerm => sol.kernel.params[2][sol.nkt] = sol.aVec[1 + sol.nkt]

\* C15: when the linear solve of SpatialKernelSolution::solve returns an a with a
\* NaN entry, a kernel coefficient or a background coefficient, solve fails and
\* the message of the error includes the condition number.
C15_NanMessageHasConditionNumber ==
    (/\ res.op = "solve"
     /\ sol.solvedBy # "NONE"
     /\ \E i \in 1..Len(sol.aVec) : isnan(sol.aVec[i])) =>
        /\ res.err = "Exception"
        /\ res.val.conditionNumber

----------------------------------------------------------------------------
(* Two candidates built by two threads.  Each thread runs build() on its   *)
(* own candidate; the only object both reach is the static counter         *)
(* KernelSolution::_SolutionId, which the constructor of a solution        *)
(* increments with ++_SolutionId: a load and a store of a plain int.  The  *)
(* rest of build() touches the thread's own candidate and is one step.     *)

Threads == {1, 2}

\* candidates whose build() makes one pass and has no condition number gate
ThreadCandidates ==
    {c \in NewCandidates :
        /\ c.ps.conditionNumberType = "EIGENVALUE"
        /\ ~c.ps.checkConditionNumber
        /\ ~c.ps.iterateSingleKernel
        /\ c.ps.constantVarianceWeighting
        /\ c.scienceMaskedImage.variance[Hot] = Q(3)}

\* the outcomes of the linear solve of one pass of _buildKernelSolution
PassOutcomes(self, args) ==
    LET begun == beginBuildKernelSolution(self, 0, args.basisList, args.hMat)
        target == TargetSolution(begun.self)
        chosen == IF target.kind = "Regularized" THEN chooseLambda(target)
                  ELSE [self |-> target, err |-> None]
    IN  IF begun.err # None \/ chosen.err # None
        THEN {[solvedBy |-> "NONE", aVec |-> <<>>, thrown |-> FALSE]}
        ELSE solveOutcomes(IF target.kind = "Regularized" THEN getM(chosen.self, TRUE)
                           ELSE target.mMat,
                           chosen.self.bVec)

\* _buildKernelSolution and the end of build() for a solution constructed with the
\* given id, the linear solve leaving through outcome o
buildSinglePass(self, id, args, o) ==
    CHOOSE r \in
        UNION {UNION {UNION {{IF begun.err # None
                                THEN [self |-> begun.self, err |-> begun.err]
                                ELSE IF solved.err # None
                                THEN [self |-> WithTargetSolution(begun.self, solved.self),
                                      err |-> solved.err]
                                ELSE [self |-> [WithTargetSolution(begun.self, solved.self)
                                                  EXCEPT !.isInitialized = TRUE],
                                      err |-> None]} :
                              solved \in {IF chosen.err # None THEN chosen
                                           ELSE StaticKernelSolution_solve(chosen.self, o)}} :
                       chosen \in {IF TargetSolution(begun.self).kind = "Regularized"
                                   THEN chooseLambda(TargetSolution(begun.self))
                                   ELSE [self |-> TargetSolution(begun.self), err |-> None]}} :
               begun \in {beginBuildKernelSolution(self, id, args.basisList, args.hMat)}} :
        TRUE

InitPar ==
    /\ visitor = NoObject
    /\ kernelCells = NoObject
    /\ cand \in [Threads -> ThreadCandidates]
    /\ SolutionId = 0
    /\ ks = [t \in Threads |-> 0]
    /\ sol = NoObject
    /\ pc = [t \in Threads |-> "idle"]
    /\ res = [t \in Threads |-> [op |-> "construct", arg |-> <<>>, err |-> None, val |-> <<>>]]
    /\ log = [t \in Threads |-> NoObject]

\* thread t calls build(basisList, hMat) on its candidate
ParBegin(t) ==
    /\ pc[t] = "idle"
    /\ \E args \in BuildArguments(cand[t]) :
           res' = [res EXCEPT ![t] = [op |-> "build", arg |-> args, err |-> "Running",
                                      val |-> <<>>]]
    /\ cand' = [cand EXCEPT ![t].varianceEstimate = InitialVariance(cand[t])]
    /\ pc' = [pc EXCEPT ![t] = "load"]
    /\ log' = [log EXCEPT ![t] = cand'[t]]
    /\ UNCHANGED <<SolutionId, ks, sol, visitor, kernelCells>>

\* ++_SolutionId in the constructor of the solution: the load
ParLoad(t) ==
    /\ pc[t] = "load"
    /\ ks' = [ks EXCEPT ![t] = SolutionId]
    /\ pc' = [pc EXCEPT ![t] = "store"]
    /\ UNCHANGED <<SolutionId, sol, cand, visitor, kernelCells, res, log>>

\* ++_SolutionId: the store; the value stored becomes _id
ParStore(t) ==
    /\ pc[t] = "store"
    /\ SolutionId' = ks[t] + 1
    /\ ks' = [ks EXCEPT ![t] = ks[t] + 1]
    /\ pc' = [pc EXCEPT ![t] = "pass"]
    /\ UNCHANGED <<sol, cand, visitor, kernelCells, res, log>>

\* the rest of build() on the thread's own candidate
ParPass(t) ==
    /\ pc[t] = "pass"
    /\ \E o \in PassOutcomes(cand[t], res[t].arg) :
           \E r \in {buildSinglePass(cand[t], ks[t], res[t].arg, o)} :
               /\ cand' = [cand EXCEPT ![t] = r.self]
               /\ res' = [res EXCEPT ![t].err = r.err]
    /\ pc' = [pc EXCEPT ![t] = "done"]
    /\ UNCHANGED <<SolutionId, ks, sol, visitor, kernelCells, log>>

NextPar ==
    \E t \in Threads :
        \/ ParBegin(t)
        \/ ParLoad(t)
        \/ ParStore(t)
        \/ ParPass(t)

SpecPar == InitPar /\ [][NextPar]_vars

\* a candidate without the id of the solution in its original slot
WithoutId(c) ==
    IF c.kernelSolutionOrig = NoObject THEN c ELSE [c EXCEPT !.kernelSolutionOrig.id = 0]

\* C18: when two threads have each built their own candidate, in any interleaving,
\* each candidate has the slots and the status that its build gives when run
\* alone, and the solutions constructed have different ids.
C18_ThreadsShareNothing ==
    (\A t \in Threads : pc[t] = "done") =>
        /\ \A t \in Threads :
               \E o \in PassOutcomes(log[t], res[t].arg) :
                   WithoutId(cand[t]) = WithoutId(buildSinglePass(log[t], 0, res[t].arg, o).self)
        /\ \A t, u \in Threads :
               (/\ t # u
                /\ cand[t].kernelSolutionOrig # NoObject
                /\ cand[u].kernelSolutionOrig # NoObject) =>
                   cand[t].kernelSolutionOrig.id # cand[u].kernelSolutionOrig.id

----------------------------------------------------------------------------
(* class BuildSingleKernelVisitor: a candidate is visited; the visit runs   *)
(* build() in its steps and then judges the residuals of the fit.           *)

\* at most MaxVisits processCandidate calls are made
MaxVisits == 2

\* the policy of the visitor: with and without core statistics and clipping
VisitorPolicies ==
    [useCoreStats : BOOLEAN,
     singleKernelClipping : BOOLEAN,
     candidateResidualMeanMax : {One},
     candidateResidualStdMax : {Q(2)},
     candidateCoreRadius : {1}]

\* what _imstats.apply(diffim) or _imstats.apply(diffim, _coreRadius) can do:
\* raise, or leave a mean, an rms and a variance (either of which can be NaN)
Statistics(mean, rms) ==
    [thrown |-> FALSE, mean |-> mean, rms |-> rms, variance |-> RMul(rms, rms)]

ApplyThrows == [thrown |-> TRUE, mean |-> NaN, rms |-> NaN, variance |-> NaN]

StatOutcomes ==
    {ApplyThrows} \cup
    {Statistics(m, r) : m \in {Zero, Q(2), Q(-2)}, r \in {One, Q(3)}} \cup
    {Statistics(NaN, One), Statistics(Zero, NaN)}

\* an apply call that was not made
NotApplied == [thrown |-> FALSE, mean |-> NaN, rms |-> NaN, variance |-> NaN]

\* the second apply, over the core, made when the first was over the whole stamp
CoreOutcomes == {ApplyThrows, Statistics(Zero, One)}

\* BuildSingleKernelVisitor(basisList, policy) when hMat is empty,
\* BuildSingleKernelVisitor(basisList, policy, hMat) otherwise
BuildSingleKernelVisitor(basisList, policy, hMat) ==
    [basisList |-> basisList,
     policy |-> policy,
     hMat |-> hMat,
     imstats |-> NotApplied,
     skipBuilt |-> TRUE,
     nRejected |-> 0,
     nProcessed |-> 0,
     useRegularization |-> hMat # <<>>,
     useCoreStats |-> policy.useCoreStats,
     coreRadius |-> policy.candidateCoreRadius]

\* the candidates visited: those without a background term whose condition
\* number is checked, as an eigenvalue ratio
VisitCandidates ==
    {c \in NewCandidates : /\ c.ps.conditionNumberType = "EIGENVALUE"
                           /\ c.ps.checkConditionNumber
                           /\ ~c.ps.fitForBackground}

\* the basis list and the regularization matrix the visitor is constructed with
VisitorArguments(c) == {args \in BuildArguments(c) : Len(args.basisList) = 1}

\* if (meanIsNan || rmsIsNan)
StatsAreNaN(stats) == isnan(stats.mean) \/ isnan(stats.rms)

\* the clipping test on the mean and on the rms of the residuals
ClippingRejects(policy, stats) ==
    /\ policy.singleKernelClipping
    /\ \/ RGt(RAbs(stats.mean), policy.candidateResidualMeanMax)
       \/ RGt(stats.rms, policy.candidateResidualStdMax)

\* processCandidate after the build: buildErr is what build() raised (None if it
\* returned), diffim what getDifferenceImage(RECENT) gives, stats and core the
\* outcomes of the two apply calls
judgeCandidate(self, kCandidate, buildErr, diffim, stats, core) ==
    LET bad == [kCandidate EXCEPT !.status = "BAD"]
        rejected == [self EXCEPT !.nRejected = @ + 1]
        counted == [self EXCEPT !.nProcessed = @ + 1, !.imstats = stats]
        scored == [kCandidate EXCEPT !.chi2 = stats.variance]
        clipped == ClippingRejects(self.policy, stats)
        judged == [scored EXCEPT !.status = IF clipped THEN "BAD" ELSE "GOOD"]
        tallied == IF clipped THEN [counted EXCEPT !.nRejected = @ + 1] ELSE counted
    IN  IF buildErr # None
        THEN [self |-> rejected, cand |-> bad, err |-> None]
        ELSE IF kCandidate.status = "BAD"
        THEN [self |-> rejected, cand |-> kCandidate, err |-> None]
        ELSE IF diffim.err # None
        THEN [self |-> self, cand |-> kCandidate, err |-> diffim.err]
        ELSE IF stats.thrown
        THEN [self |-> self, cand |-> bad, err |-> None]
        ELSE IF StatsAreNaN(stats)
        THEN [self |-> [counted EXCEPT !.nRejected = @ + 1],
              cand |-> [scored EXCEPT !.status = "BAD"], err |-> None]
        ELSE IF self.useCoreStats
        THEN [self |-> tallied, cand |-> judged, err |-> None]
        ELSE IF core.thrown
        THEN [self |-> tallied, cand |-> [judged EXCEPT !.status = "BAD"], err |-> None]
        ELSE [self |-> [tallied EXCEPT !.imstats = core], cand |-> judged, err |-> None]

InitVisit ==
    /\ kernelCells = NoObject
    /\ cand \in VisitCandidates
    /\ \E args \in VisitorArguments(cand) : \E policy \in VisitorPolicies :
           visitor = BuildSingleKernelVisitor(args.basisList, policy, args.hMat)
    /\ SolutionId = 0
    /\ ks = NoObject
    /\ sol = NoObject
    /\ pc = "idle"
    /\ res = [op |-> "construct", arg |-> <<>>, err |-> None, val |-> <<>>]
    /\ log = [visits |-> 0, at |-> "idle", before |-> NoObject, nRejected |-> 0,
              returned |-> 0, passes |-> <<>>]

\* a processCandidate call that ends at once
VisitEnds(err, skipped, kernelCandidate) ==
    /\ res' = [op |-> "processCandidate",
               arg |-> [basisList |-> visitor.basisList, hMat |-> visitor.hMat],
               err |-> err,
               val |-> [kernelCandidate |-> kernelCandidate, skipped |-> skipped]]
    /\ log' = [log EXCEPT !.visits = @ + 1, !.before = cand,
                          !.nRejected = visitor.nRejected, !.passes = <<>>]
    /\ UNCHANGED <<cand, pc>>

\* visitor.processCandidate(candidate) is called: the cast, the skip of a built
\* candidate, and the call of build(_basisList) or build(_basisList, _hMat)
VisitBeginWithin(maxVisits) ==
    /\ pc = "idle"
    /\ log.at = "idle"
    /\ log.visits < maxVisits
    /\ \E isKernelCandidate \in BOOLEAN :
           IF ~isKernelCandidate THEN VisitEnds("LogicError", FALSE, FALSE)
           ELSE IF visitor.skipBuilt /\ cand.isInitialized THEN VisitEnds(None, TRUE, TRUE)
           ELSE /\ res' = [op |-> "processCandidate",
                           arg |-> [basisList |-> visitor.basisList,
                                    hMat |-> IF visitor.useRegularization
                                             THEN visitor.hMat ELSE <<>>],
                           err |-> "Running",
                           val |-> [kernelCandidate |-> TRUE, skipped |-> FALSE]]
                /\ cand' = [cand EXCEPT !.varianceEstimate = InitialVariance(cand)]
                /\ pc' = "pass1"
                /\ log' = [log EXCEPT !.visits = @ + 1, !.at = "build", !.before = cand,
                                      !.nRejected = visitor.nRejected, !.passes = <<>>]
    /\ UNCHANGED <<SolutionId, ks, sol, visitor, kernelCells>>

VisitBegin == VisitBeginWithin(MaxVisits)

\* build() has returned or raised: the rest of processCandidate, the apply calls
\* ending in one of the given outcomes
VisitJudgeAmong(statOutcomes, coreOutcomes) ==
    /\ pc = "idle"
    /\ log.at = "build"
    /\ LET diffim == IF res.err = None /\ cand.status # "BAD"
                     THEN CandidateGet(cand, "getDifferenceImage", "RECENT")
                     ELSE [err |-> None, val |-> <<>>]
           applied == res.err = None /\ cand.status # "BAD" /\ diffim.err = None
       IN  \E stats \in IF applied THEN statOutcomes ELSE {NotApplied} :
           \E core \in IF /\ applied
                          /\ ~stats.thrown
                          /\ ~StatsAreNaN(stats)
                          /\ ~visitor.useCoreStats
                       THEN coreOutcomes ELSE {NotApplied} :
               LET r == judgeCandidate(visitor, cand, res.err, diffim, stats, core)
               IN  /\ visitor' = r.self
                   /\ cand' = r.cand
                   /\ res' = [res EXCEPT !.err = r.err,
                                         !.val = [kernelCandidate |-> TRUE,
                                                  skipped |-> FALSE,
                                                  buildErr |-> res.err,
                                                  buildBad |-> cand.status = "BAD",
                                                  stats |-> stats,
                                                  core |-> core]]
    /\ log' = [log EXCEPT !.at = "idle"]
    /\ UNCHANGED <<SolutionId, ks, sol, kernelCells, pc>>

VisitJudge == VisitJudgeAmong(StatOutcomes, CoreOutcomes)

\* setSkipBuilt(skip)
VisitSetSkipBuilt ==
    /\ pc = "idle"
    /\ log.at = "idle"
    /\ log.visits < MaxVisits
    /\ \E skip \in BOOLEAN : visitor' = [visitor EXCEPT !.skipBuilt = skip]
    /\ visitor' # visitor
    /\ UNCHANGED <<SolutionId, ks, sol, kernelCells, cand, pc, res, log>>

NextVisit ==
    \/ VisitBegin
    \/ CandBuildPass
    \/ CandBuildReweight
    \/ CandBuildFinish
    \/ VisitJudge
    \/ VisitSetSkipBuilt

SpecVisit == InitVisit /\ [][NextVisit]_vars

----------------------------------------------------------------------------
(* Claims about BuildSingleKernelVisitor::processCandidate *)

\* processCandidate has ended for a kernel candidate it did not skip
VisitReturned ==
    /\ res.op = "processCandidate"
    /\ log.at = "idle"
    /\ res.val.kernelCandidate
    /\ ~res.val.skipped

\* the reasons for which the visit rejects the candidate: build() raised or
\* left it BAD, an apply call failed, the statistics are NaN, clipping rejects
VisitRejects ==
    \/ res.val.buildErr # None
    \/ res.val.buildBad
    \/ res.val.stats.thrown
    \/ res.val.core.thrown
    \/ /\ res.val.stats # NotApplied
       /\ ~res.val.stats.thrown
       /\ \/ StatsAreNaN(res.val.stats)
          \/ ClippingRejects(visitor.policy, res.val.stats)

\* C20: after processCandidate returns for a candidate it did not skip, no
\* exception has escaped, the status of the candidate is GOOD or BAD (BAD when
\* build raised, when build left it BAD, when the residual statistics failed or
\* were NaN, or when clipping rejected it; GOOD otherwise), and nRejected has
\* grown by exactly one if the candidate is BAD and not at all otherwise.
C20_StatusAndRejectedCount ==
    VisitReturned =>
        /\ res.err = None
        /\ cand.status \in {"GOOD", "BAD"}
        /\ cand.status = "BAD" <=> VisitRejects
        /\ visitor.nRejected = log.nRejected + (IF cand.status = "BAD" THEN 1 ELSE 0)

----------------------------------------------------------------------------
(* Claims about the slots of a KernelCandidate between and during builds *)

\* C22: in every reachable state of a KernelCandidate, a pca slot that is not
\* empty implies that isInitialized is true and that the original slot is not
\* empty.
C22_PcaSlotOnlyWhenInitialized ==
    cand.kernelSolutionPca # NoObject =>
        /\ cand.isInitialized
        /\ cand.kernelSolutionOrig # NoObject

\* a second build() call has put a solution in the pca slot
C22_Witness ==
    /\ log.builds = 2
    /\ log.before.isInitialized
    /\ log.before.kernelSolutionPca = NoObject
    /\ cand.kernelSolutionPca # NoObject

\* the slot holds a solution that has been solved
HoldsSolved(slot) == slot # NoObject /\ slot.solvedBy # "NONE"

\* C23: in every reachable state of a KernelCandidate, isInitialized = true
\* implies that the original slot holds a solved solution (solvedBy is not NONE).
C23_InitializedMeansSolved ==
    cand.isInitialized => HoldsSolved(cand.kernelSolutionOrig)

\* the accessors the visitor reads the most recent fit with
RecentAccessors == {"getKernel", "getBackground", "getKsum", "getDifferenceImage"}

\* C24: whenever no build() call is running and at least one slot of the
\* candidate holds a solved solution, getKernel(RECENT), getBackground(RECENT),
\* getKsum(RECENT) and getDifferenceImage(RECENT) succeed and return the values
\* of a solved solution.
C24_RecentReadsASolvedSlot ==
    (/\ pc = "idle"
     /\ \/ HoldsSolved(cand.kernelSolutionOrig)
        \/ HoldsSolved(cand.kernelSolutionPca)) =>
        /\ HoldsSolved(RecentSolution(cand))
        /\ \A name \in RecentAccessors : CandidateGet(cand, name, "RECENT").err = None

----------------------------------------------------------------------------
(* Claims about a solve() that fails, and about a build() after a solve() *)

\* the step is a solve() call that got its coefficients from the linear solver
\* and failed in _setKernel on a NaN among them
SolveFailsOnNaN ==
    /\ log'.calls = log.calls + 1
    /\ res'.op = "solve"
    /\ res'.err = "Exception"
    /\ sol'.solvedBy # "NONE"
    /\ Len(sol'.aVec) = Len(sol.basisList) + (IF sol.fitForBackground THEN 1 ELSE 0)
    /\ HasNaN(sol'.aVec)

Coefficients(self) ==
    self.kernel \o (IF self.fitForBackground THEN <<self.background>> ELSE <<>>)

\* C25: in every reachable state of a StaticKernelSolution with solvedBy other
\* than NONE, the kernel coefficients and the background that the accessors
\* return are a solution of the M and b that are stored now; calling build()
\* again on a solved solution does not leave the accessors returning the result
\* of the earlier solve without error.
C25_AccessorsFollowStoredEquations ==
    sol.solvedBy # "NONE" =>
        /\ getKernel(sol) = Returned(sol.kernel)
        /\ getBackground(sol) = Returned(sol.background)
        /\ \E o \in solveOutcomes(sol.mMat, sol.bVec) :
               ~o.thrown /\ o.aVec = Coefficients(sol)

----------------------------------------------------------------------------
(* Claims about addConstraint after a solve of the spatial solution *)

\* SpatialKernelSolution::getSolutionPair()
Spatial_getSolutionPair(self) ==
    IF self.solvedBy = "NONE" THEN Thrown("Exception")
    ELSE Returned(<<self.kernel, self.background>>)

\* the step is an addConstraint call that follows a solve() that succeeded
AddAfterSolve ==
    /\ res.op = "solve"
    /\ res.err = None
    /\ Len(log'.added) = Len(log.added) + 1

\* C27: after solve() has succeeded, a later addConstraint call changes only M
\* and b: the kernel and the background function, with its solved coefficients,
\* that getSolutionPair returns are the same before and after the call.
C27_AddConstraintKeepsSolution ==
    [][AddAfterSolve =>
          /\ Spatial_getSolutionPair(sol).err = None
          /\ Spatial_getSolutionPair(sol') = Spatial_getSolutionPair(sol)]_vars

----------------------------------------------------------------------------
(* RegularizedKernelSolution::estimateRisk and _createLambdaSteps, in the   *)
(* steps of their loops.  res holds the locals: the vector lambdas, the     *)
(* loop variable l, the vector risks, and the value returned.  The risk of  *)
(* one lambda is an input: it is a sum of matrix products that is NaN when  *)
(* mLambda.inverse() is taken of a singular matrix.                         *)

\* the longest vector of lambdas that is followed; a loop that fills it goes on
MaxLambdas == 4

\* l <= max as the hardware compares doubles
RLe(a, b) == RLt(a, b) \/ REq(a, b)

\* pow(10, l) for a whole number l
Pow10(l) == IF l[1] >= 0 THEN Power(Q(10), l[1]) ELSE RInv(Power(Q(10), -l[1]))

LambdaBounds == {Zero, One, Q(2)}
LambdaSteps == {Q(-1), Zero, One, Q(2)}

\* the grid keys of the policy; each step type reads its own three keys
GridPolicy(type, linMin, linMax, linStep, logMin, logMax, logStep) ==
    [lambdaType |-> "minimizeBiasedRisk", lambdaStepType |-> type,
     lambdaLinMin |-> linMin, lambdaLinMax |-> linMax, lambdaLinStep |-> linStep,
     lambdaLogMin |-> logMin, lambdaLogMax |-> logMax, lambdaLogStep |-> logStep]

GridPolicies ==
    {GridPolicy("linear", mn, mx, st, Zero, Zero, One) :
        mn \in LambdaBounds, mx \in LambdaBounds, st \in LambdaSteps}
    \cup {GridPolicy("log", Q(2), Zero, One, mn, mx, st) :
        mn \in LambdaBounds, mx \in LambdaBounds, st \in LambdaSteps}
    \cup {GridPolicy("cubic", Zero, One, One, Zero, One, One)}

\* the keys _createLambdaSteps reads for the step type of the policy
GridMin(policy) ==
    IF policy.lambdaStepType = "linear" THEN policy.lambdaLinMin ELSE policy.lambdaLogMin
GridMax(policy) ==
    IF policy.lambdaStepType = "linear" THEN policy.lambdaLinMax ELSE policy.lambdaLogMax
GridStep(policy) ==
    IF policy.lambdaStepType = "linear" THEN policy.lambdaLinStep ELSE policy.lambdaLogStep

\* what one turn of the loop pushes: l, or pow(10, l)
LambdaOf(policy, l) == IF policy.lambdaStepType = "linear" THEN l ELSE Pow10(l)

\* one turn of the loop over the lambdas in estimateRisk: KernelSolution::solve
\* throws, or a risk is pushed
RiskValues == {Zero, One, NaN}
RiskOutcomes ==
    {[thrown |-> TRUE, risk |-> NaN]} \cup {[thrown |-> FALSE, risk |-> r] : r \in RiskValues}

\* std::min_element(risks.begin(), risks.end()) as a distance from begin(), from 0:
\* the first element no later element is less than; end(), distance 0, when
\* risks is empty
RECURSIVE SmallestUpTo(_, _)
SmallestUpTo(risks, n) ==
    IF n <= 1 THEN 1
    ELSE LET smallest == SmallestUpTo(risks, n - 1)
         IN  IF RLt(risks[n], risks[smallest]) THEN n ELSE smallest

min_element(risks) == IF risks = <<>> THEN 0 ELSE SmallestUpTo(risks, Len(risks)) - 1

\* lambdas[index]: an element of the vector, or a read past the end of it, which
\* yields any double or ends the process
ElementReads(lambdas, index) ==
    IF index < Len(lambdas)
    THEN {[crashed |-> FALSE, val |-> lambdas[index + 1]]}
    ELSE {[crashed |-> TRUE, val |-> NaN]}
             \cup {[crashed |-> FALSE, val |-> g] : g \in GarbageValues}

\* the constructor leaves _lambda unset: it holds any double
InitGrid ==
    /\ visitor = NoObject
    /\ kernelCells = NoObject
    /\ sol \in {[NewSolution("Regularized", 1, <<CentreDelta>>, FALSE, Identity(1), p)
                      EXCEPT !.lambda = g] :
                   p \in GridPolicies, g \in GarbageValues}
    /\ SolutionId = 1
    /\ ks = NoObject
    /\ cand = NoObject
    /\ pc = "idle"
    /\ res = [op |-> "construct", lambdas |-> <<>>, l |-> NaN, risks |-> <<>>,
              err |-> None, val |-> NaN]
    /\ log = [turns |-> 0]

\* estimateRisk up to the first turn of the loop of _createLambdaSteps
GridEnter ==
    /\ pc = "idle"
    /\ res.op = "construct"
    /\ IF sol.policy.lambdaStepType \in {"linear", "log"}
       THEN /\ pc' = "createLambdaSteps"
            /\ res' = [res EXCEPT !.op = "estimateRisk", !.l = GridMin(sol.policy)]
       ELSE /\ pc' = "idle"
            /\ res' = [res EXCEPT !.op = "estimateRisk", !.err = "Exception"]
    /\ UNCHANGED <<SolutionId, ks, sol, cand, visitor, kernelCells, log>>

\* one test of the loop condition of _createLambdaSteps, and one turn when it holds
LambdaStep ==
    /\ pc = "createLambdaSteps"
    /\ Len(res.lambdas) < MaxLambdas
    /\ IF RLe(res.l, GridMax(sol.policy))
       THEN /\ res' = [res EXCEPT !.lambdas = Append(@, LambdaOf(sol.policy, res.l)),
                                  !.l = RAdd(@, GridStep(sol.policy))]
            /\ log' = [log EXCEPT !.turns = @ + 1]
            /\ pc' = pc
       ELSE /\ pc' = "estimateRisk"
            /\ UNCHANGED <<res, log>>
    /\ UNCHANGED <<SolutionId, ks, sol, cand, visitor, kernelCells>>

\* one turn of the loop over the lambdas in estimateRisk
RiskStep ==
    /\ pc = "estimateRisk"
    /\ Len(res.risks) < Len(res.lambdas)
    /\ \E o \in RiskOutcomes :
          IF o.thrown
          THEN /\ pc' = "idle"
               /\ res' = [res EXCEPT !.err = "Exception"]
          ELSE /\ pc' = pc
               /\ res' = [res EXCEPT !.risks = Append(@, o.risk)]
    /\ UNCHANGED <<SolutionId, ks, sol, cand, visitor, kernelCells, log>>

\* the end of estimateRisk: min_element, index, return lambdas[index]; solve()
\* stores the value in _lambda
RiskReturn ==
    /\ pc = "estimateRisk"
    /\ Len(res.risks) = Len(res.lambdas)
    /\ \E read \in ElementReads(res.lambdas, min_element(res.risks)) :
          IF read.crashed
          THEN /\ res' = [res EXCEPT !.err = "crash"]
               /\ UNCHANGED sol
          ELSE /\ res' = [res EXCEPT !.val = read.val]
               /\ sol' = [sol EXCEPT !.lambda = read.val]
    /\ pc' = "idle"
    /\ UNCHANGED <<SolutionId, ks, cand, visitor, kernelCells, log>>

NextGrid ==
    \/ GridEnter
    \/ LambdaStep
    \/ RiskStep
    \/ RiskReturn

SpecGrid == InitGrid /\ [][NextGrid]_vars

\* every step of the call that can be taken is taken in the end
SpecGridLive == SpecGrid /\ WF_vars(NextGrid)

----------------------------------------------------------------------------
(* The value estimateRisk returns.                                          *)

\* a call of estimateRisk has ended and no exception left it
RiskCallEnded == pc = "idle" /\ res.op = "estimateRisk" /\ res.err # "Exception"

\* the risk at place i of the grid is no greater than any risk of the grid
IsSmallestRisk(i) == \A j \in 1..Len(res.risks) : RLe(res.risks[i], res.risks[j])

\* C28: estimateRisk returns a member of the grid of _createLambdaSteps whose risk
\* is no greater than the risk of any other member, the first such member in grid
\* order, for every grid configuration, one with min > max included
C28_ReturnsFirstSmallestRisk ==
    RiskCallEnded =>
        /\ res.err = None
        /\ \E i \in 1..Len(res.lambdas) :
              /\ res.val = res.lambdas[i]
              /\ IsSmallestRisk(i)
              /\ \A j \in 1..(i - 1) : ~IsSmallestRisk(j)

----------------------------------------------------------------------------
(* The grid _createLambdaSteps returns.                                     *)

\* min + (i - 1) * step
GridPoint(policy, i) == RAdd(GridMin(policy), RMul(Q(i - 1), GridStep(policy)))

\* the vector lambdas holds min, min + step, ... as far as they do not exceed max,
\* as powers of ten for the log type
IsGridOf(policy, lambdas) ==
    /\ \A i \in 1..Len(lambdas) :
          /\ RLe(GridPoint(policy, i), GridMax(policy))
          /\ lambdas[i] = IF policy.lambdaStepType = "log"
                          THEN Pow10(GridPoint(policy, i))
                          ELSE GridPoint(policy, i)
    /\ ~RLe(GridPoint(policy, Len(lambdas) + 1), GridMax(policy))

\* _createLambdaSteps has returned to estimateRisk
StepsReturned == res.op = "estimateRisk" /\ pc # "createLambdaSteps" /\ res.err # "Exception"

\* C29: _createLambdaSteps terminates for every (min, max, step) of the linear and
\* the log type, step <= 0 with min <= max included, and returns min, min + step,
\* min + 2 step, ... not exceeding max (as powers of ten for log); any other
\* lambdaStepType fails with an error
C29_CreateLambdaStepsTerminates ==
    /\ [](StepsReturned => IsGridOf(sol.policy, res.lambdas))
    /\ []((res.op = "estimateRisk" /\ sol.policy.lambdaStepType \notin {"linear", "log"})
            => res.err = "Exception" /\ res.lambdas = <<>>)
    /\ (pc = "createLambdaSteps" ~> pc # "createLambdaSteps")

----------------------------------------------------------------------------
(* The loop of the class documentation of BuildSingleKernelVisitor:         *)
(*     int nRejected = -1;                                                  *)
(*     while (nRejected != 0) {                                             *)
(*         singleKernelFitter.reset();                                      *)
(*         kernelCells.visitCandidates(&singleKernelFitter, nStarPerCell);  *)
(*         nRejected = singleKernelFitter.getNRejected();                   *)
(*     }                                                                    *)
(* over a set of cells, the current candidate of each cell being visited.   *)
(* log.loop is the position in the loop, log.cell and log.place the cell    *)
(* and the place in it of the candidate visited, log.rejected the local     *)
(* nRejected, log.atReset the cells when the pass began.                    *)

\* at most MaxLoopVisits processCandidate calls are made
MaxLoopVisits == 10

\* BuildSingleKernelVisitor::reset()
reset(self) == [self EXCEPT !.nRejected = 0, !.nProcessed = 0]

\* a mutated current candidate: the first of the cell, whatever its status
CurrentCandidate_first(cell) == IF cell = <<>> THEN 0 ELSE 1

\* the place of the current candidate of a cell, the first that is not BAD;
\* 0 when every candidate of the cell is BAD
CurrentCandidate(cell) ==
    IF \A i \in 1..Len(cell) : cell[i].status = "BAD" THEN 0
    ELSE CHOOSE i \in 1..Len(cell) :
             /\ cell[i].status # "BAD"
             /\ \A j \in 1..(i - 1) : cell[j].status = "BAD"

\* the candidates of the cells: one whose kernel is built in one pass, one with a
\* NaN pixel, one built in two passes
LoopCandidates ==
    {c \in VisitCandidates :
        \/ /\ c.ps.constantVarianceWeighting
           /\ ~c.ps.iterateSingleKernel
           /\ c.scienceMaskedImage.image[Hot] \in {Q(3), NaN}
           /\ c.scienceMaskedImage.variance[Hot] = Q(3)
        \/ /\ ~c.ps.constantVarianceWeighting
           /\ c.ps.iterateSingleKernel
           /\ c.scienceMaskedImage.image[Hot] = One}

\* two cells: one or two candidates in the first, one in the second
LoopCells ==
    {<<first, <<c>>>> :
        first \in {<<a>> : a \in LoopCandidates}
                      \cup {<<a, b>> : a \in LoopCandidates, b \in LoopCandidates},
        c \in LoopCandidates}

\* the policy of the class documentation, with and without core statistics
LoopPolicies == {policy \in VisitorPolicies : policy.singleKernelClipping}

\* the apply call raises, or gives residuals that pass or fail the clipping
LoopStatOutcomes == {ApplyThrows, Statistics(Zero, One), Statistics(Q(2), One)}

InitLoop ==
    /\ kernelCells \in LoopCells
    /\ visitor \in {[BuildSingleKernelVisitor(<<CentreDelta>>, policy, <<>>)
                        EXCEPT !.skipBuilt = skip] :
                       policy \in LoopPolicies, skip \in BOOLEAN}
    /\ cand = NoObject
    /\ SolutionId = 0
    /\ ks = NoObject
    /\ sol = NoObject
    /\ pc = "idle"
    /\ res = [op |-> "construct", arg |-> <<>>, err |-> None, val |-> <<>>]
    /\ log = [visits |-> 0, at |-> "idle", before |-> NoObject, nRejected |-> 0,
              returned |-> 0, passes |-> <<>>,
              loop |-> "test", cell |-> 0, place |-> 0, visitsBefore |-> 0,
              rejected |-> -1, atReset |-> kernelCells, turns |-> 0]

\* while (nRejected != 0), and reset() when the test holds
LoopTest ==
    /\ log.loop = "test"
    /\ IF log.rejected # 0
       THEN /\ visitor' = reset(visitor)
            /\ log' = [log EXCEPT !.loop = "cells", !.cell = 1, !.atReset = kernelCells,
                                  !.turns = @ + 1]
       ELSE /\ log' = [log EXCEPT !.loop = "done"]
            /\ UNCHANGED visitor
    /\ UNCHANGED <<SolutionId, ks, sol, cand, kernelCells, pc, res>>

\* visitCandidates comes to the next cell and takes its current candidate; after
\* the last cell it returns and nRejected = getNRejected()
LoopCell ==
    /\ log.loop = "cells"
    /\ IF log.cell > Len(kernelCells)
       THEN /\ log' = [log EXCEPT !.loop = "test", !.rejected = visitor.nRejected]
            /\ UNCHANGED cand
       ELSE \E place \in {CurrentCandidate(kernelCells[log.cell])} :
              IF place = 0
              THEN /\ log' = [log EXCEPT !.cell = @ + 1]
                   /\ UNCHANGED cand
              ELSE /\ log' = [log EXCEPT !.loop = "call", !.place = place,
                                         !.visitsBefore = log.visits]
                   /\ cand' = kernelCells[log.cell][place]
    /\ UNCHANGED <<SolutionId, ks, sol, visitor, kernelCells, pc, res>>

\* visitCandidates calls processCandidate on the candidate it took
LoopProcess ==
    /\ log.loop = "call"
    /\ log.visits = log.visitsBefore
    /\ VisitBeginWithin(MaxLoopVisits)

LoopJudge == VisitJudgeAmong(LoopStatOutcomes, CoreOutcomes)

\* processCandidate has returned, and visitCandidates goes on, or it has raised,
\* and the exception leaves the loop
LoopReturn ==
    /\ log.loop = "call"
    /\ log.visits > log.visitsBefore
    /\ log.at = "idle"
    /\ pc = "idle"
    /\ kernelCells' = [kernelCells EXCEPT ![log.cell][log.place] = cand]
    /\ log' = IF res.err # None THEN [log EXCEPT !.loop = "thrown"]
              ELSE [log EXCEPT !.loop = "cells", !.cell = @ + 1]
    /\ UNCHANGED <<SolutionId, ks, sol, cand, visitor, pc, res>>

NextLoop ==
    \/ LoopTest
    \/ LoopCell
    \/ LoopProcess
    \/ CandBuildPass
    \/ CandBuildReweight
    \/ CandBuildFinish
    \/ LoopJudge
    \/ LoopReturn

SpecLoop == InitLoop /\ [][NextLoop]_vars

\* a call of _buildKernelSolution that has begun ends
BuildPassEnds == pc \in {"pass1", "pass2"} /\ pc' \in {"idle", "reweight", "finish"}

\* every step of the loop that can be taken is taken in the end
SpecLoopLive ==
    /\ SpecLoop
    /\ WF_vars(LoopTest \/ LoopCell \/ LoopProcess \/ LoopReturn)
    /\ WF_pc(BuildPassEnds)
    /\ WF_vars(CandBuildReweight \/ CandBuildFinish)
    /\ WF_vars(LoopJudge)

----------------------------------------------------------------------------
(* Claims about the loop that visits the cells until no candidate is        *)
(* rejected.                                                                *)

\* the candidates of the cells, as (cell, place) pairs
Places == {<<c, i>> \in (1..Len(kernelCells)) \X (1..2) : i <= Len(kernelCells[c])}

\* C21: when the loop 'reset; visit the current candidate (the first not marked
\* BAD) of every cell; repeat while nRejected != 0' exits, the current candidate
\* of every cell that still has a candidate not marked BAD is initialized and
\* holds a solved kernel
C21_CurrentCandidatesAreBuilt ==
    log.loop = "done" =>
        \A c \in 1..Len(kernelCells) :
            \A place \in {CurrentCandidate(kernelCells[c])} \ {0} :
                /\ kernelCells[c][place].isInitialized
                /\ HoldsSolved(RecentSolution(kernelCells[c][place]))

\* the loop is left: its test failed, or an exception came out of visitCandidates
LoopEnded == log.loop \in {"done", "thrown"}

\* a step leaves every candidate marked BAD as it is, marked BAD
BadStaysBad ==
    /\ \A p \in Places :
          kernelCells[p[1]][p[2]].status = "BAD" =>
              /\ kernelCells'[p[1]][p[2]] = kernelCells[p[1]][p[2]]
              /\ ~(log'.loop = "call" /\ log.loop # "call" /\ log'.cell = p[1]
                     /\ log'.place = p[2])
    /\ (log.loop = "call" /\ log'.loop = "call" /\ cand.status = "BAD")
           => cand'.status = "BAD"

\* a pass has ended with nRejected != 0
PassRejected == log.loop = "test" /\ log.turns > 0 /\ log.rejected # 0

\* the pass marked a candidate BAD that was not marked BAD when it began
PassMarkedOne ==
    \E p \in Places : /\ log.atReset[p[1]][p[2]].status # "BAD"
                      /\ kernelCells[p[1]][p[2]].status = "BAD"

\* C30: for every set of cells and candidates the loop 'reset; visit the current
\* candidate of every cell; repeat while nRejected != 0' terminates: a candidate
\* marked BAD is never visited or un-marked again, and every pass that ends with
\* nRejected != 0 has marked at least one candidate BAD that was not BAD before
C30_LoopTerminates ==
    /\ <>LoopEnded
    /\ [][BadStaysBad]_vars
    /\ [](PassRejected => PassMarkedOne)

\* the loop made three passes: two rejected a candidate of the first cell each,
\* the third rejected none
C30_Witness ==
    /\ log.loop = "done"
    /\ log.turns = 3
    /\ Len(kernelCells[1]) = 2
    /\ \A i \in 1..2 : /\ kernelCells[1][i].status = "BAD"
                       /\ log.atReset[1][i].status = "BAD"
    /\ kernelCells[2][1].status = "GOOD"

============================================================================
